---------------------------- MODULE Spec2Model ----------------------------
(***************************************************************************)
(* Model of the APFS b-tree engine: the query/traversal engine, the tree   *)
(* level insert/remove/replace, the object resolver with copy-on-write and *)
(* the object map.  Two trees share the engine: the catalog (virtual       *)
(* nodes, resolved through the object map, variable-size values) and the   *)
(* object map itself (physical nodes, fixed-size records).                 *)
(***************************************************************************)
EXTENDS Integers, Naturals, Sequences, FiniteSets, TLC

\* ---------------------------------------------------------------- bounds
MaxKey == 3        \* catalog keys are 1..MaxKey
MaxVal == 2        \* catalog values are 1..MaxVal; a value v is v units long
NodeSpace == 5     \* units of record storage in one node
NBlocks == 11      \* blocks in the container
MaxXid == 3        \* last transaction id explored
MaxOps == 5        \* tree operations explored in one run

Keys == 1..MaxKey
Vals == 1..MaxVal
Bnos == 1..NBlocks

\* ----------------------------------------------------------- error codes
OK == "0"
ENODATA == "ENODATA"
ENOSPC == "ENOSPC"
EFSCORRUPTED == "EFSCORRUPTED"
EAGAIN == "EAGAIN"
EFSBADCRC == "EFSBADCRC"
EIO == "EIO"

\* ------------------------------------------------------ trees and storage
CAT == "cat"
OMAP == "omap"
APFS_OBJ_VIRTUAL == "virtual"
APFS_OBJ_PHYSICAL == "physical"

\* the catalog lives in a volume (virtual nodes); the object map is physical
apfs_query_storage(tree) == IF tree = OMAP THEN APFS_OBJ_PHYSICAL ELSE APFS_OBJ_VIRTUAL

\* catalog queries of the callers are exact; object-map queries are not
QueryExact(tree) == tree = CAT

\* --------------------------------------------------------------- helpers
Max(S) == CHOOSE x \in S : \A y \in S : y <= x
Last(s) == s[Len(s)]
Front(s) == SubSeq(s, 1, Len(s) - 1)

InsertAt(s, i, x) == SubSeq(s, 1, i) \o <<x>> \o SubSeq(s, i + 1, Len(s))
RemoveAt(s, i) == SubSeq(s, 1, i - 1) \o SubSeq(s, i + 1, Len(s))

\* ------------------------------------------------------------------ keys
\* a key is <<id, number>>: catalog keys are <<k, 0>>, object-map keys are
\* <<oid, xid>>; compared by id, then by number
KeyCmp(a, b) ==
    IF a[1] < b[1] THEN -1
    ELSE IF a[1] > b[1] THEN 1
    ELSE IF a[2] < b[2] THEN -1
    ELSE IF a[2] > b[2] THEN 1
    ELSE 0

CatKey(k) == <<k, 0>>
apfs_init_omap_key(oid, xid) == <<oid, xid>>

\* lengths of the stored key and value of a record
KeyLen(key) == 1
ValLen(tree, leaf, v) == IF tree = CAT /\ leaf THEN v ELSE 1
RecLen(tree, leaf, r) == KeyLen(r.k) + ValLen(tree, leaf, r.v)

\* ---------------------------------------------------------------- blocks
NoInfo == [bt_key_count |-> 0, bt_node_count |-> 0,
           bt_longest_key |-> 0, bt_longest_val |-> 0]

FreeBlock == [kind |-> "free", tree |-> "none", oid |-> 0, xid |-> 0,
              root |-> FALSE, leaf |-> FALSE, level |-> 0,
              recs |-> <<>>, info |-> NoInfo]

NewNode(tree, oid, xid, root, leaf, level, recs, info) ==
    [kind |-> "node", tree |-> tree, oid |-> oid, xid |-> xid,
     root |-> root, leaf |-> leaf, level |-> level,
     recs |-> recs, info |-> info]

apfs_node_is_leaf(m, n) == m.blk[n].leaf
apfs_node_is_root(m, n) == m.blk[n].root
Records(m, n) == Len(m.blk[n].recs)

RECURSIVE UsedIn(_, _, _)
UsedIn(tree, leaf, recs) ==
    IF recs = <<>> THEN 0
    ELSE RecLen(tree, leaf, Head(recs)) + UsedIn(tree, leaf, Tail(recs))

NodeUsed(m, n) == UsedIn(m.blk[n].tree, m.blk[n].leaf, m.blk[n].recs)

\* ---------------------------------------------------------------- queries
\* a query chain is a sequence of frames, topmost ancestor first; the last
\* frame is *query.  index is 0-based, -1 is "before the first record".
Frame(n, i, d) == [node |-> n, index |-> i, depth |-> d]

apfs_alloc_query(m, n, parent) ==
    parent \o <<Frame(n, Records(m, n),
                      IF parent = <<>> THEN 0 ELSE Last(parent).depth + 1)>>

SetLast(q, fr) == Front(q) \o <<fr>>
SetIndex(q, i) == SetLast(q, [Last(q) EXCEPT !.index = i])
SetNode(q, n) == SetLast(q, [Last(q) EXCEPT !.node = n])


\* ------------------------------------------------------- machine state
\* m carries everything the engine reads and writes:
\*   blk       bno -> block (the buffer cache; the on-disk bytes at commit)
\*   trans     the buffers flagged as part of the transaction (buffer_trans)
\*   fq        the free queue, in insertion order
\*   nx_xid    the current transaction id
\*   next_oid  the next virtual object id
\*   s_omap_root, s_cat_root   the in-memory root nodes (by block number)
\*   cows      the copies made by copy-on-write in this transaction, as
\*             records of the tree, the object id, the old and the new block
\*   unjoined  blocks whose bytes were changed while not in the transaction
\*   asserts   the assertions that failed
\*   ub        outcome of a read through a stale record offset
\*   ubused    such a read happened

Modify(m, n, b) ==
    [m EXCEPT !.blk[n] = b,
              !.unjoined = IF m.blk[n].xid # m.nx_xid THEN @ \cup {n} ELSE @]

SetRecs(m, n, recs) == Modify(m, n, [m.blk[n] EXCEPT !.recs = recs])

\* a failed assertion of the code is recorded and execution goes on
Ensure(m, cond, label) ==
    IF cond THEN m ELSE [m EXCEPT !.asserts = @ \cup {label}]

apfs_assert_in_transaction(m, n, label) ==
    Ensure(m, m.blk[n].xid = m.nx_xid, label)

\* ------------------------------------------------------------ allocator
FreeBnos(m) == {b \in Bnos : m.blk[b].kind = "free"}

\* allocate backwards from the end of the container
apfs_spaceman_allocate_block(m) ==
    IF FreeBnos(m) = {} THEN [m |-> m, bno |-> 0, ret |-> ENOSPC]
    ELSE [m |-> m, bno |-> Max(FreeBnos(m)), ret |-> OK]

apfs_free_queue_insert(m, bno) == [m EXCEPT !.fq = Append(@, bno)]

apfs_transaction_join(m, bno) == [m EXCEPT !.trans = @ \cup {bno}]

\* --------------------------------------------------------- object blocks
\* a variant that takes every object for one of an older transaction
NeverInTransaction(m, bno) == FALSE

\* is the object already part of the current transaction?
ObjectInTransaction(m, bno) == m.blk[bno].xid = m.nx_xid

\* a variant that moves the bytes: nothing is left in the old block
MoveObject(m, from, to) ==
    [m EXCEPT !.blk[to] = m.blk[from],
              !.blk[from] = [m.blk[from] EXCEPT !.recs = <<>>]]

\* the new block gets the bytes of the old one
CopyObject(m, from, to) == [m EXCEPT !.blk[to] = m.blk[from]]

\* a variant that names the copy but leaves the old transaction id in it
StampOidOnly(m, bno) ==
    [m EXCEPT !.blk[bno].oid = IF m.blk[bno].tree = OMAP THEN bno ELSE @]

\* the copy gets its header: a physical object is named by its block, and
\* every object by the transaction that wrote it
StampObject(m, bno) ==
    [m EXCEPT !.blk[bno].oid = IF m.blk[bno].tree = OMAP THEN bno ELSE @,
              !.blk[bno].xid = m.nx_xid]

\* a variant that takes write access without copying: the block is stamped
\* where it is
ReadObjectInPlace(m, bno, write) ==
    IF ~ write \/ m.blk[bno].xid = m.nx_xid THEN [m |-> m, bno |-> bno, ret |-> OK]
    ELSE [m |-> apfs_transaction_join([m EXCEPT !.blk[bno].xid = m.nx_xid], bno),
          bno |-> bno, ret |-> OK]

\* the outcome of reading a block from the device: m.io names the blocks
\* apfs_sb_bread cannot read, the blocks whose stored checksum is not the one
\* of their bytes, and whether the mount checks the checksum of nodes
apfs_sb_bread(m, bno) == bno \notin m.io.unreadable

\* a block that holds no object does not pass the verification of its checksum
CsumVerifies(m, bno) == m.blk[bno].kind # "free" /\ bno \notin m.io.badcsum

\* a variant that asks for the checksum only on the way to a write
VerifyForWriteOnly(m, bno, write) == write /\ m.io.check /\ ~ CsumVerifies(m, bno)

\* nx_flags & APFS_CHECK_NODES && !apfs_obj_verify_csum(sb, obj)
VerifyFails(m, bno, write) == m.io.check /\ ~ CsumVerifies(m, bno)

\* a variant that puts the old block in the free queue before it has a
\* block for the copy
ReadObjectFreeFirst(m, bno, write) ==
    IF ~ apfs_sb_bread(m, bno) THEN [m |-> m, bno |-> 0, ret |-> EIO]
    ELSE IF VerifyFails(m, bno, write) THEN [m |-> m, bno |-> 0, ret |-> EFSBADCRC]
    ELSE IF ~ write THEN [m |-> m, bno |-> bno, ret |-> OK]
    ELSE IF ObjectInTransaction(m, bno) THEN [m |-> m, bno |-> bno, ret |-> OK]
    ELSE
      LET m0 == apfs_free_queue_insert(m, bno)
          a == apfs_spaceman_allocate_block(m0) IN
      IF a.ret # OK THEN [m |-> a.m, bno |-> 0, ret |-> a.ret]
      ELSE IF ~ apfs_sb_bread(a.m, a.bno) THEN [m |-> a.m, bno |-> 0, ret |-> EIO]
      ELSE
        LET old == m.blk[bno]
            m1 == CopyObject(a.m, bno, a.bno)
            m3 == StampObject(m1, a.bno)
            m4 == apfs_transaction_join(m3, a.bno)
            m5 == [m4 EXCEPT !.cows = @ \cup {[tree |-> old.tree, oid |-> old.oid,
                                                old |-> bno, new |-> a.bno]}]
        IN [m |-> m5, bno |-> a.bno, ret |-> OK]

apfs_read_object_block(m, bno, write) ==
    IF ~ apfs_sb_bread(m, bno) THEN [m |-> m, bno |-> 0, ret |-> EIO]
    ELSE IF VerifyFails(m, bno, write) THEN [m |-> m, bno |-> 0, ret |-> EFSBADCRC]
    ELSE IF ~ write THEN [m |-> m, bno |-> bno, ret |-> OK]
    ELSE IF ObjectInTransaction(m, bno) THEN [m |-> m, bno |-> bno, ret |-> OK]
    ELSE
      LET a == apfs_spaceman_allocate_block(m) IN
      IF a.ret # OK THEN [m |-> a.m, bno |-> 0, ret |-> a.ret]
      ELSE IF ~ apfs_sb_bread(a.m, a.bno) THEN [m |-> a.m, bno |-> 0, ret |-> EIO]
      ELSE
        LET old == m.blk[bno]
            m1 == CopyObject(a.m, bno, a.bno)
            m2 == apfs_free_queue_insert(m1, bno)
            m3 == StampObject(m2, a.bno)
            m4 == apfs_transaction_join(m3, a.bno)
            m5 == [m4 EXCEPT !.cows = @ \cup {[tree |-> old.tree, oid |-> old.oid,
                                                old |-> bno, new |-> a.bno]}]
        IN [m |-> m5, bno |-> a.bno, ret |-> OK]

\* ------------------------------------------------------------ node search
\* bisection over the records before fr.index, looking for the last record
\* whose key is not after the wanted one
RECURSIVE Bisect(_, _, _, _, _, _)
Bisect(recs, key, left, right, index, cmp) ==
    LET right1 == IF cmp > 0 THEN index - 1 ELSE right
        left1 == IF cmp > 0 THEN left ELSE index
    IN IF cmp > 0 /\ right1 < left1 THEN [ret |-> ENODATA, index |-> -1, cmp |-> cmp]
       ELSE
         LET index1 == IF cmp > 0 THEN (left1 + right1) \div 2
                       ELSE (left1 + right1 + 1) \div 2
             cmp1 == KeyCmp(recs[index1 + 1].k, key)
         IN IF cmp1 = 0 \/ left1 = right1
            THEN [ret |-> OK, index |-> index1, cmp |-> cmp1]
            ELSE Bisect(recs, key, left1, right1, index1, cmp1)

apfs_node_query(m, tree, key, fr) ==
    LET recs == m.blk[fr.node].recs
        b == Bisect(recs, key, 0, 0, fr.index, 1)
    IN IF b.ret # OK THEN [ret |-> ENODATA, index |-> -1]
       ELSE IF b.cmp > 0 THEN [ret |-> ENODATA, index |-> -1]
       ELSE IF m.blk[fr.node].leaf /\ QueryExact(tree) /\ b.cmp # 0
            THEN [ret |-> ENODATA, index |-> b.index]
       ELSE [ret |-> OK, index |-> b.index]

\* the record the last frame of q points at
RecAt(m, q) == m.blk[Last(q).node].recs[Last(q).index + 1]

apfs_child_from_query(m, q) == RecAt(m, q).v
apfs_bno_from_query(m, q) == RecAt(m, q).v

\* ------------------------------------------------------------- traversal
MaxDepth == 12

\* The functions of the engine call one another through Call, the one
\* recursive operator of the engine: op is the name of the function and a
\* the tuple of its arguments.
RECURSIVE Call(_, _)

\* the leaf gets index -1, every ancestor index 0
apfs_query_set_before_first(m, tree, q) ==
    IF Last(q).depth >= MaxDepth THEN [q |-> q, ret |-> EFSCORRUPTED]
    ELSE IF apfs_node_is_leaf(m, Last(q).node)
         THEN [q |-> SetIndex(q, -1), ret |-> OK]
    ELSE
      LET q1 == SetIndex(q, 0)                      \* apfs_node_query_first
          child_id == apfs_child_from_query(m, q1)
          rn == Call("apfs_read_node", <<m, child_id, apfs_query_storage(tree), FALSE>>)
      IN IF rn.ret # OK THEN [q |-> q1, ret |-> rn.ret]
         ELSE Call("apfs_query_set_before_first", <<m, tree,
                                          apfs_alloc_query(m, rn.bno, q1)>>)

apfs_btree_query(m, tree, key, q) ==
    IF Last(q).depth >= MaxDepth THEN [q |-> q, ret |-> EFSCORRUPTED]
    ELSE
      LET nq == Call("apfs_node_query", <<m, tree, key, Last(q)>>)
          q1 == SetIndex(q, nq.index)
      IN IF nq.ret = ENODATA /\ Len(q1) = 1 /\ nq.index = -1 THEN
           LET r == Call("apfs_query_set_before_first", <<m, tree, q1>>)
           IN IF r.ret # OK THEN r ELSE [q |-> r.q, ret |-> ENODATA]
         ELSE IF nq.ret = EAGAIN THEN
           IF Len(q1) = 1 THEN [q |-> q1, ret |-> ENODATA]
           ELSE Call("apfs_btree_query", <<m, tree, key, Front(q1)>>)
         ELSE IF nq.ret # OK THEN [q |-> q1, ret |-> nq.ret]
         ELSE IF apfs_node_is_leaf(m, Last(q1).node) THEN [q |-> q1, ret |-> OK]
         ELSE
           LET child_id == apfs_child_from_query(m, q1)
               rn == Call("apfs_read_node", <<m, child_id, apfs_query_storage(tree), FALSE>>)
           IN IF rn.ret # OK THEN [q |-> q1, ret |-> rn.ret]
              ELSE Call("apfs_btree_query", <<m, tree, key,
                                    apfs_alloc_query(m, rn.bno, q1)>>)

\* ------------------------------------------------------- object resolver
\* a variant that copies the object but leaves the object map as it was
LookupNoReplace(m, tbl, id, write) ==
    LET query == apfs_alloc_query(m, tbl, <<>>)
        key == apfs_init_omap_key(id, m.nx_xid)
        r == Call("apfs_btree_query", <<m, OMAP, key, query>>)
    IN IF r.ret # OK THEN [m |-> m, block |-> 0, ret |-> r.ret]
       ELSE
         LET block == apfs_bno_from_query(m, r.q)
             nb == Call("apfs_read_object_block", <<m, block, write>>)
         IN IF nb.ret # OK THEN [m |-> nb.m, block |-> block, ret |-> nb.ret]
            ELSE [m |-> nb.m, block |-> nb.bno, ret |-> OK]

apfs_omap_lookup_block(m, tbl, id, write) ==
    LET query == apfs_alloc_query(m, tbl, <<>>)
        key == apfs_init_omap_key(id, m.nx_xid)
        r == Call("apfs_btree_query", <<m, OMAP, key, query>>)
    IN IF r.ret # OK THEN [m |-> m, block |-> 0, ret |-> r.ret]
       ELSE
         LET block == apfs_bno_from_query(m, r.q)
         IN IF ~ write THEN [m |-> m, block |-> block, ret |-> OK]
            ELSE
              LET nb == Call("apfs_read_object_block", <<m, block, write>>)
              IN IF nb.ret # OK THEN [m |-> nb.m, block |-> block, ret |-> nb.ret]
                 ELSE
                   LET rp == Call("apfs_btree_replace", <<nb.m, OMAP, r.q,
                                                <<id, m.nx_xid>>, nb.bno>>)
                   IN [m |-> rp.m, block |-> nb.bno, ret |-> rp.ret]

apfs_read_node(m, oid, storage, write) ==
    IF storage = APFS_OBJ_VIRTUAL THEN
      LET lk == Call("apfs_omap_lookup_block", <<m, m.s_omap_root, oid, write>>)
      IN IF lk.ret # OK THEN [m |-> lk.m, bno |-> 0, ret |-> lk.ret]
         ELSE Call("apfs_read_object_block", <<lk.m, lk.block, write>>)
    ELSE Call("apfs_read_object_block", <<m, oid, write>>)

\* ------------------------------------------------------ root bookkeeping
NoKey == <<>>      \* a NULL key pointer
NoVal == 0         \* a NULL value pointer

LenOfKey(key) == IF key = NoKey THEN 0 ELSE KeyLen(key)
LenOfVal(tree, leaf, val) == IF val = NoVal THEN 0 ELSE ValLen(tree, leaf, val)

\* a variant that keeps the longest lengths but not the count
ChangeRecCountNoCount(m, q, change, key_len, val_len) ==
    LET root == q[1].node
        info == m.blk[root].info
        info1 == [info EXCEPT
                    !.bt_longest_key = IF key_len > @ THEN key_len ELSE @,
                    !.bt_longest_val = IF val_len > @ THEN val_len ELSE @]
    IN [m EXCEPT !.blk[root].info = info1]

\* a variant that keeps the count but not the longest lengths
ChangeRecCountNoLongest(m, q, change, key_len, val_len) ==
    LET root == q[1].node
    IN Modify(m, root, [m.blk[root] EXCEPT !.info.bt_key_count = @ + change])

\* the topmost ancestor of the chain is taken to be the root
apfs_btree_change_rec_count(m, q, change, key_len, val_len) ==
    LET m1 == Ensure(m, change # -1 \/ (key_len = 0 /\ val_len = 0), "rec_count_args")
        m2 == Ensure(m1, apfs_node_is_leaf(m, Last(q).node), "rec_count_leaf")
        root == q[1].node
        m3 == Ensure(m2, apfs_node_is_root(m, root), "rec_count_root")
        m4 == apfs_assert_in_transaction(m3, root, "rec_count_trans")
        info == m.blk[root].info
        info1 == [info EXCEPT
                    !.bt_longest_key = IF key_len > @ THEN key_len ELSE @,
                    !.bt_longest_val = IF val_len > @ THEN val_len ELSE @,
                    !.bt_key_count = @ + change]
    IN Modify(m4, root, [m4.blk[root] EXCEPT !.info = info1])

apfs_btree_change_node_count(m, q, change) ==
    LET m1 == Ensure(m, ~ apfs_node_is_leaf(m, Last(q).node), "node_count_leaf")
        root == q[1].node
        m2 == Ensure(m1, apfs_node_is_root(m, root), "node_count_root")
        m3 == apfs_assert_in_transaction(m2, root, "node_count_trans")
    IN Modify(m3, root, [m3.blk[root] EXCEPT !.info.bt_node_count = @ + change])

\* ------------------------------------------------- node-local primitives
\* write a new record right after the one the query points at
apfs_node_insert(m, tree, q, key, val) ==
    LET n == Last(q).node
        rec == [k |-> key, v |-> val]
    IN IF NodeUsed(m, n) + RecLen(tree, m.blk[n].leaf, rec) > NodeSpace
       THEN [m |-> m, q |-> q, ret |-> ENOSPC]
       ELSE [m |-> SetRecs(m, n, InsertAt(m.blk[n].recs, Last(q).index + 1, rec)),
             q |-> SetIndex(q, Last(q).index + 1), ret |-> OK]

\* overwrite the key and/or the value of the record the query points at
apfs_node_replace(m, tree, q, key, val) ==
    LET n == Last(q).node
        old == RecAt(m, q)
        rec == [k |-> IF key = NoKey THEN old.k ELSE key,
                v |-> IF val = NoVal THEN old.v ELSE val]
        leaf == m.blk[n].leaf
    IN IF NodeUsed(m, n) - RecLen(tree, leaf, old) + RecLen(tree, leaf, rec) > NodeSpace
       THEN [m |-> m, q |-> q, ret |-> ENOSPC]
       ELSE [m |-> SetRecs(m, n, [m.blk[n].recs EXCEPT ![Last(q).index + 1] = rec]),
             q |-> q, ret |-> OK]

\* ------------------------------------------------------ chain inspection
apfs_query_is_orphan(m, q) ==
    \A i \in 1..Len(q) : ~ apfs_node_is_root(m, q[i].node)

\* rebuild the ancestors of a catalog leaf query by a fresh exact descent
apfs_query_refresh(m, tree, q) ==
    IF tree # CAT THEN [m |-> m, q |-> q, ret |-> EFSCORRUPTED]
    ELSE IF ~ apfs_node_is_leaf(m, Last(q).node)
         THEN [m |-> m, q |-> q, ret |-> EFSCORRUPTED]
    ELSE
      LET stale == Last(q).index < 0 \/ Last(q).index >= Records(m, Last(q).node)
          m1 == IF stale THEN [m EXCEPT !.ubused = TRUE] ELSE m
      IN IF stale /\ m.ub = 0 THEN [m |-> m1, q |-> q, ret |-> EFSCORRUPTED]
         ELSE
           LET new_key == IF stale THEN CatKey(m.ub) ELSE RecAt(m, q).k
               r == Call("apfs_btree_query", <<m, CAT, new_key,
                                     apfs_alloc_query(m, m.s_cat_root, <<>>)>>)
           IN IF r.ret # OK THEN [m |-> m1, q |-> q, ret |-> r.ret]
              ELSE [m |-> m1, q |-> Front(r.q) \o <<Last(q)>>, ret |-> OK]

\* ---------------------------------------------------- joining the transaction
\* a variant that joins the node of a physical tree without telling the
\* transaction
JoinUntracked(m, tree, q) ==
    LET node == Last(q).node
    IN IF node \in m.trans \/ tree = CAT THEN [m |-> m, q |-> q, ret |-> OK]
       ELSE [m |-> [m EXCEPT !.blk[node].xid = m.nx_xid], q |-> q, ret |-> OK]

\* a variant that copies the node and leaves the record of the parent
JoinNoParent(m, tree, q) ==
    LET node == Last(q).node
    IN IF node \in m.trans THEN [m |-> m, q |-> q, ret |-> OK]
       ELSE
         LET rn == Call("apfs_read_node", <<m, m.blk[node].oid, apfs_query_storage(tree), TRUE>>)
         IN IF rn.ret # OK THEN [m |-> rn.m, q |-> q, ret |-> rn.ret]
            ELSE [m |-> rn.m, q |-> SetNode(q, rn.bno), ret |-> OK]

\* a variant that takes the node as it is
JoinNothing(m, tree, q) == [m |-> m, q |-> q, ret |-> OK]

apfs_query_join_transaction(m, tree, q) ==
    LET node == Last(q).node
        storage == apfs_query_storage(tree)
    IN IF node \in m.trans THEN [m |-> m, q |-> q, ret |-> OK]
       ELSE
         LET rn == Call("apfs_read_node", <<m, m.blk[node].oid, storage, TRUE>>)
         IN IF rn.ret # OK THEN [m |-> rn.m, q |-> q, ret |-> rn.ret]
            ELSE
              LET q1 == SetNode(q, rn.bno)
              IN IF storage = APFS_OBJ_PHYSICAL /\ Len(q1) > 1 THEN
                   LET rp == Call("apfs_btree_replace", <<rn.m, tree, Front(q1), NoKey, rn.bno>>)
                   IN [m |-> rp.m, q |-> rp.q \o <<Last(q1)>>, ret |-> rp.ret]
                 ELSE [m |-> rn.m, q |-> q1, ret |-> OK]

\* --------------------------------------------------------- object map records
apfs_create_omap_rec(m, oid, bno) ==
    LET key == apfs_init_omap_key(oid, m.nx_xid)
        r == Call("apfs_btree_query", <<m, OMAP, key, apfs_alloc_query(m, m.s_omap_root, <<>>)>>)
    IN IF r.ret # OK /\ r.ret # ENODATA THEN [m |-> m, ret |-> r.ret]
       ELSE LET ins == Call("apfs_btree_insert", <<m, OMAP, r.q, <<oid, m.nx_xid>>, bno>>)
            IN [m |-> ins.m, ret |-> ins.ret]

apfs_delete_omap_rec(m, oid) ==
    LET key == apfs_init_omap_key(oid, m.nx_xid)
        r == Call("apfs_btree_query", <<m, OMAP, key, apfs_alloc_query(m, m.s_omap_root, <<>>)>>)
    IN IF r.ret = ENODATA THEN [m |-> m, ret |-> EFSCORRUPTED]
       ELSE IF r.ret # OK THEN [m |-> m, ret |-> r.ret]
       ELSE LET rm == Call("apfs_btree_remove", <<m, OMAP, r.q>>)
            IN [m |-> rm.m, ret |-> rm.ret]

\* ------------------------------------------------------------- new nodes
\* a new, empty node that is part of the transaction
apfs_create_node(m, tree) ==
    LET a == apfs_spaceman_allocate_block(m)
    IN IF a.ret # OK THEN [m |-> m, bno |-> 0, ret |-> a.ret]
       ELSE IF tree = OMAP THEN
         [m |-> apfs_transaction_join(
                  [a.m EXCEPT !.blk[a.bno] =
                     NewNode(tree, a.bno, m.nx_xid, FALSE, TRUE, 0, <<>>, NoInfo)],
                  a.bno),
          bno |-> a.bno, ret |-> OK]
       ELSE
         LET oid == m.next_oid
             m1 == [a.m EXCEPT !.next_oid = @ + 1,
                               !.blk[a.bno] =
                     NewNode(tree, oid, m.nx_xid, FALSE, TRUE, 0, <<>>, NoInfo)]
             cr == Call("apfs_create_omap_rec", <<m1, oid, a.bno>>)
         IN [m |-> apfs_transaction_join(cr.m, a.bno), bno |-> a.bno, ret |-> cr.ret]

\* ------------------------------------------------------------ tree insert
InsertAgain(m, tree, q, key, val) ==
    LET node == Last(q).node
        m1 == apfs_assert_in_transaction(m, node, "insert_trans")
        ni == Call("apfs_node_insert", <<m1, tree, q, key, val>>)
    IN IF ni.ret = ENOSPC THEN
         LET needs == Len(q) = 1 /\ ~ apfs_node_is_root(m1, node)
             rf == IF needs THEN Call("apfs_query_refresh", <<m1, tree, q>>)
                   ELSE [m |-> m1, q |-> q, ret |-> OK]
         IN IF rf.ret # OK THEN rf
            ELSE IF needs /\ Records(m1, node) = 1
                 THEN Call("apfs_create_single_rec_node", <<rf.m, tree, rf.q, key, val>>)
            ELSE
              LET sp == Call("apfs_node_split", <<rf.m, tree, rf.q>>)
              IN IF sp.ret # OK THEN sp
                 ELSE Call("InsertAgain", <<sp.m, tree, sp.q, key, val>>)
       ELSE IF ni.ret # OK THEN ni
       ELSE IF Len(ni.q) > 1 /\ Last(ni.q).index = 0 THEN
         \* only when the record was inserted before all others
         LET rp == Call("apfs_btree_replace", <<ni.m, tree, Front(ni.q), key, NoVal>>)
         IN [m |-> rp.m, q |-> rp.q \o <<Last(ni.q)>>, ret |-> rp.ret]
       ELSE ni

\* a variant that leaves the record count of the root alone
InsertUncounted(m, tree, q, key, val) ==
    LET j == Call("apfs_query_join_transaction", <<m, tree, q>>)
    IN IF j.ret # OK THEN j
       ELSE Call("InsertAgain", <<j.m, tree, j.q, key, val>>)

apfs_btree_insert(m, tree, q, key, val) ==
    LET node == Last(q).node
        leaf == apfs_node_is_leaf(m, node)
        \* first, or node splits may cause the parent query to be gone
        m1 == IF leaf
              THEN Call("apfs_btree_change_rec_count", <<m, q, 1, LenOfKey(key),
                                               LenOfVal(tree, leaf, val)>>)
              ELSE m
        j == Call("apfs_query_join_transaction", <<m1, tree, q>>)
    IN IF j.ret # OK THEN j
       ELSE Call("InsertAgain", <<j.m, tree, j.q, key, val>>)

\* ------------------------------------------------------------ tree remove
\* the record leaves the table of contents of the node; up is the outcome
\* of the update of the parent record, tip the frame of the node
RemoveRecord(up, tip) ==
    IF up.ret # OK THEN [m |-> up.m, q |-> up.q \o <<tip>>, ret |-> up.ret]
    ELSE [m |-> SetRecs(up.m, tip.node,
                        RemoveAt(up.m.blk[tip.node].recs, tip.index + 1)),
          q |-> up.q \o <<[tip EXCEPT !.index = @ - 1]>>,
          ret |-> OK]

\* the node has joined the transaction
RemoveJoined(m, tree, q) ==
    LET node == Last(q).node
        m2 == apfs_assert_in_transaction(m, node, "remove_trans")
        single == Records(m, node) = 1
    IN IF single /\ Len(q) > 1 THEN Call("apfs_delete_node", <<m2, tree, q>>)
       ELSE
         LET \* all descendants are gone, the root is the whole tree
             m3 == IF single
                   THEN Modify(m2, node, [m2.blk[node] EXCEPT !.level = 0,
                                                              !.leaf = TRUE])
                   ELSE m2
         IN \* the first key in a node must match the parent record's
            IF Len(q) > 1 /\ Last(q).index = 0
            THEN RemoveRecord(Call("apfs_btree_replace",
                                   <<m3, tree, Front(q), m.blk[node].recs[2].k, NoVal>>),
                              Last(q))
            ELSE RemoveRecord([m |-> m3, q |-> Front(q), ret |-> OK], Last(q))

apfs_btree_remove(m, tree, q) ==
    LET m1 == IF apfs_node_is_leaf(m, Last(q).node)
              THEN Call("apfs_btree_change_rec_count", <<m, q, -1, 0, 0>>)
              ELSE Call("apfs_btree_change_node_count", <<m, q, -1>>)
        j == Call("apfs_query_join_transaction", <<m1, tree, q>>)
    IN IF j.ret # OK THEN j
       ELSE Call("RemoveJoined", <<j.m, tree, j.q>>)

\* ----------------------------------------------------------- tree replace
ReplaceAgain(m, tree, q, key, val) ==
    LET node == Last(q).node
        m1 == apfs_assert_in_transaction(m, node, "replace_trans")
        \* the first key in a node must match the parent record's
        up == IF key # NoKey /\ Len(q) > 1 /\ Last(q).index = 0
              THEN Call("apfs_btree_replace", <<m1, tree, Front(q), key, NoVal>>)
              ELSE [m |-> m1, q |-> Front(q), ret |-> OK]
        q1 == up.q \o <<Last(q)>>
    IN IF up.ret # OK THEN [m |-> up.m, q |-> q1, ret |-> up.ret]
       ELSE
         LET nr == Call("apfs_node_replace", <<up.m, tree, q1, key, val>>)
         IN IF nr.ret # ENOSPC THEN nr
            ELSE
              LET rootless == Len(q1) = 1 /\ ~ apfs_node_is_root(up.m, node)
              IN IF rootless /\ Records(up.m, node) = 1
                 THEN [m |-> up.m, q |-> q1, ret |-> EFSCORRUPTED]
                 ELSE
                   LET rf == IF rootless THEN Call("apfs_query_refresh", <<up.m, tree, q1>>)
                             ELSE [m |-> up.m, q |-> q1, ret |-> OK]
                   IN IF rf.ret # OK THEN rf
                      ELSE
                        LET sp == Call("apfs_node_split", <<rf.m, tree, rf.q>>)
                        IN IF sp.ret # OK THEN sp
                           ELSE Call("ReplaceAgain", <<sp.m, tree, sp.q, key, val>>)

\* apfs_btree_replace without the refresh of an orphan query
ReplaceUnrefreshed(m, tree, q, key, val) ==
    LET node == Last(q).node
        leaf == apfs_node_is_leaf(m, node)
        m0 == Ensure(m, key # NoKey \/ val # NoVal, "replace_args")
        m1 == IF leaf
              THEN Call("apfs_btree_change_rec_count", <<m0, q, 0, LenOfKey(key),
                                               LenOfVal(tree, leaf, val)>>)
              ELSE m0
        j == Call("apfs_query_join_transaction", <<m1, tree, q>>)
    IN IF j.ret # OK THEN j
       ELSE Call("ReplaceAgain", <<j.m, tree, j.q, key, val>>)

apfs_btree_replace(m, tree, q, key, val) ==
    LET node == Last(q).node
        leaf == apfs_node_is_leaf(m, node)
        m0 == Ensure(m, key # NoKey \/ val # NoVal, "replace_args")
        rf == IF leaf /\ apfs_query_is_orphan(m0, q)
              THEN Call("apfs_query_refresh", <<m0, tree, q>>)
              ELSE [m |-> m0, q |-> q, ret |-> OK]
    IN IF rf.ret # OK THEN rf
       ELSE
         LET m1 == IF leaf
                   THEN Call("apfs_btree_change_rec_count", <<rf.m, rf.q, 0, LenOfKey(key),
                                                    LenOfVal(tree, leaf, val)>>)
                   ELSE m0
             j == Call("apfs_query_join_transaction", <<m1, tree, rf.q>>)
         IN IF j.ret # OK THEN j
            ELSE Call("ReplaceAgain", <<j.m, tree, j.q, key, val>>)

\* -------------------------------------------------------------- node split
\* the root keeps a single record for a new child that takes all its records
apfs_btree_inc_height(m, tree, q) ==
    LET root == Last(q).node
        cn == Call("apfs_create_node", <<m, tree>>)
    IN IF cn.ret # OK THEN [m |-> cn.m, q |-> q, ret |-> cn.ret]
       ELSE
         LET old == cn.m.blk[root]
             m1 == Modify(cn.m, cn.bno,
                          [cn.m.blk[cn.bno] EXCEPT !.recs = old.recs,
                                                   !.leaf = old.leaf,
                                                   !.level = old.level])
             m2 == Modify(m1, root,
                          [old EXCEPT !.recs = <<[k |-> old.recs[1].k,
                                                  v |-> m1.blk[cn.bno].oid]>>,
                                      !.leaf = FALSE,
                                      !.level = old.level + 1])
             q1 == <<Frame(root, 0, Last(q).depth),
                     Frame(cn.bno, Last(q).index, Last(q).depth + 1)>>
         IN [m |-> Call("apfs_btree_change_node_count", <<m2, Front(q1), 1>>),
             q |-> q1, ret |-> OK]

\* the second half of the records goes to a new sibling, which gets a record
\* in the parent; the caller is left with the tip of the chain only
SplitNonRoot(m, tree, q) ==
    LET node == Last(q).node
        m0 == apfs_assert_in_transaction(m, node, "split_trans")
        recs == m0.blk[node].recs
        new_rec_count == Len(recs) \div 2
        old_rec_count == Len(recs) - new_rec_count
    IN IF Len(q) = 1 \/ new_rec_count = 0
       THEN [m |-> m0, q |-> q, ret |-> EFSCORRUPTED]
       ELSE
         LET cn == Call("apfs_create_node", <<m0, tree>>)
         IN IF cn.ret # OK THEN [m |-> cn.m, q |-> q, ret |-> cn.ret]
            ELSE
              LET m1 == Modify(cn.m, cn.bno,
                          [cn.m.blk[cn.bno] EXCEPT
                             !.recs = SubSeq(recs, old_rec_count + 1, Len(recs)),
                             !.leaf = cn.m.blk[node].leaf,
                             !.level = cn.m.blk[node].level])
                  m2 == SetRecs(m1, node, SubSeq(recs, 1, old_rec_count))
                  m3 == Call("apfs_btree_change_node_count", <<m2, Front(q), 1>>)
                  \* apfs_attach_child
                  at == Call("apfs_btree_insert", <<m3, tree, Front(q),
                                          m3.blk[cn.bno].recs[1].k, m3.blk[cn.bno].oid>>)
                  tip == IF Last(q).index >= old_rec_count
                         THEN Frame(cn.bno, Last(q).index - old_rec_count, Last(q).depth)
                         ELSE Last(q)
              IN [m |-> at.m, q |-> <<tip>>, ret |-> at.ret]

apfs_node_split(m, tree, q) ==
    IF apfs_node_is_root(m, Last(q).node) THEN
      LET ih == Call("apfs_btree_inc_height", <<m, tree, q>>)
      IN IF ih.ret # OK THEN ih ELSE Call("SplitNonRoot", <<ih.m, tree, ih.q>>)
    ELSE Call("SplitNonRoot", <<m, tree, q>>)

\* a node of its own for a record that fits nowhere else
apfs_create_single_rec_node(m, tree, q, key, val) ==
    LET cn == Call("apfs_create_node", <<m, tree>>)
    IN IF cn.ret # OK THEN [m |-> cn.m, q |-> q, ret |-> cn.ret]
       ELSE
         LET m1 == Modify(cn.m, cn.bno,
                          [cn.m.blk[cn.bno] EXCEPT !.recs = <<[k |-> key, v |-> val]>>])
             m2 == Call("apfs_btree_change_node_count", <<m1, Front(q), 1>>)
             at == Call("apfs_btree_insert", <<m2, tree, Front(q), key, m2.blk[cn.bno].oid>>)
         IN [m |-> at.m,
             q |-> at.q \o <<Frame(cn.bno, 0, Last(q).depth)>>,
             ret |-> at.ret]

\* ------------------------------------------------------------ node removal
\* a variant that frees the node and leaves the record of the parent
FreeNodeOnly(m, tree, q) ==
    [m |-> apfs_free_queue_insert(m, Last(q).node), q |-> q, ret |-> OK]

apfs_delete_node(m, tree, q) ==
    LET node == Last(q).node
        d == IF apfs_query_storage(tree) = APFS_OBJ_VIRTUAL
             THEN Call("apfs_delete_omap_rec", <<m, m.blk[node].oid>>)
             ELSE [m |-> m, ret |-> OK]
    IN IF d.ret # OK THEN [m |-> d.m, q |-> q, ret |-> d.ret]
       ELSE
         LET m1 == apfs_free_queue_insert(d.m, node)
             rm == Call("apfs_btree_remove", <<m1, tree, Front(q)>>)
         IN [m |-> rm.m, q |-> rm.q \o <<Last(q)>>, ret |-> rm.ret]

\* ------------------------------------------------------------ transactions
CatRootOid == 1    \* the object id of the catalog root
FirstXid == 1      \* the transaction that wrote the first checkpoint

\* a new transaction takes the next xid and gets write access to the roots
StartTransaction(m) ==
    LET m0 == [m EXCEPT !.nx_xid = @ + 1, !.trans = {}, !.cows = {}]
        om == Call("apfs_read_object_block", <<m0, m0.s_omap_root, TRUE>>)
    IN IF om.ret # OK THEN [m |-> om.m, ret |-> om.ret]
       ELSE
         LET ct == Call("apfs_read_node",
                        <<[om.m EXCEPT !.s_omap_root = om.bno], CatRootOid,
                          APFS_OBJ_VIRTUAL, TRUE>>)
         IN IF ct.ret # OK THEN [m |-> ct.m, ret |-> ct.ret]
            ELSE [m |-> [ct.m EXCEPT !.s_cat_root = ct.bno], ret |-> OK]

\* ---------------------------------------------------- callers of the trees
\* the callers run an exact query from the catalog root and act on its result
CatQuery(m, k) ==
    Call("apfs_btree_query",
         <<m, CAT, CatKey(k), apfs_alloc_query(m, m.s_cat_root, <<>>)>>)

\* insert when the query reports that the record is missing
DoInsert(m, k, v) ==
    Call("apfs_btree_insert", <<m, CAT, CatQuery(m, k).q, CatKey(k), v>>)

\* remove the record the query found
DoRemove(m, k, v) ==
    Call("apfs_btree_remove", <<m, CAT, CatQuery(m, k).q>>)

\* give the record the query found a new value
DoReplace(m, k, v) ==
    Call("apfs_btree_replace", <<m, CAT, CatQuery(m, k).q, NoKey, v>>)

\* every outcome of a caller's operation, which it runs when its query
\* returns what it wants: what a read through a stale offset gives matters
\* only to an operation that makes one
Outcomes(op, want, m, k, v) ==
    IF CatQuery(m, k).ret # want THEN {}
    ELSE
      LET r0 == Call(op, <<m, k, v>>)
      IN IF r0.m.ubused
         THEN {r0} \cup {Call(op, <<[m EXCEPT !.ub = ub], k, v>>) : ub \in Keys}
         ELSE {r0}

\* --------------------------------- the loop of insert and replace in turns
\* apfs_btree_insert up to the label again
InsertEnter(m, tree, q, key, val) ==
    LET leaf == apfs_node_is_leaf(m, Last(q).node)
        m1 == IF leaf
              THEN Call("apfs_btree_change_rec_count", <<m, q, 1, LenOfKey(key),
                                               LenOfVal(tree, leaf, val)>>)
              ELSE m
    IN Call("apfs_query_join_transaction", <<m1, tree, q>>)

\* apfs_btree_replace up to the label again
ReplaceEnter(m, tree, q, key, val) ==
    LET leaf == apfs_node_is_leaf(m, Last(q).node)
        m0 == Ensure(m, key # NoKey \/ val # NoVal, "replace_args")
        rf == IF leaf /\ apfs_query_is_orphan(m0, q)
              THEN Call("apfs_query_refresh", <<m0, tree, q>>)
              ELSE [m |-> m0, q |-> q, ret |-> OK]
    IN IF rf.ret # OK THEN rf
       ELSE
         LET m1 == IF leaf
                   THEN Call("apfs_btree_change_rec_count", <<rf.m, rf.q, 0, LenOfKey(key),
                                                    LenOfVal(tree, leaf, val)>>)
                   ELSE m0
         IN Call("apfs_query_join_transaction", <<m1, tree, rf.q>>)

\* from the label again to the test of the error: at says where the turn
\* has got to, "nospace" for the branch that splits
InsertTurn(m, tree, q, key, val) ==
    LET m1 == apfs_assert_in_transaction(m, Last(q).node, "insert_trans")
        ni == Call("apfs_node_insert", <<m1, tree, q, key, val>>)
    IN IF ni.ret = ENOSPC THEN [m |-> m1, q |-> q, ret |-> ENOSPC, at |-> "nospace"]
       ELSE IF ni.ret # OK THEN [m |-> ni.m, q |-> ni.q, ret |-> ni.ret, at |-> "done"]
       ELSE IF Len(ni.q) > 1 /\ Last(ni.q).index = 0 THEN
         LET rp == Call("apfs_btree_replace", <<ni.m, tree, Front(ni.q), key, NoVal>>)
         IN [m |-> rp.m, q |-> rp.q \o <<Last(ni.q)>>, ret |-> rp.ret, at |-> "done"]
       ELSE [m |-> ni.m, q |-> ni.q, ret |-> OK, at |-> "done"]

ReplaceTurn(m, tree, q, key, val) ==
    LET m1 == apfs_assert_in_transaction(m, Last(q).node, "replace_trans")
        up == IF key # NoKey /\ Len(q) > 1 /\ Last(q).index = 0
              THEN Call("apfs_btree_replace", <<m1, tree, Front(q), key, NoVal>>)
              ELSE [m |-> m1, q |-> Front(q), ret |-> OK]
        q1 == up.q \o <<Last(q)>>
    IN IF up.ret # OK THEN [m |-> up.m, q |-> q1, ret |-> up.ret, at |-> "done"]
       ELSE
         LET nr == Call("apfs_node_replace", <<up.m, tree, q1, key, val>>)
         IN IF nr.ret = ENOSPC
            THEN [m |-> up.m, q |-> q1, ret |-> ENOSPC, at |-> "nospace"]
            ELSE [m |-> nr.m, q |-> nr.q, ret |-> nr.ret, at |-> "done"]

\* a variant of the branch that goes back to the label and has split nothing
SplitNothing(m, tree, q, key, val) ==
    [m |-> m, q |-> q, ret |-> OK, at |-> "again", how |-> "split"]

\* the branch of -ENOSPC: "again" when the split has made room to try in;
\* how says which of its statements has decided
InsertSplit(m, tree, q, key, val) ==
    LET node == Last(q).node
        needs == Len(q) = 1 /\ ~ apfs_node_is_root(m, node)
        rf == IF needs THEN Call("apfs_query_refresh", <<m, tree, q>>)
              ELSE [m |-> m, q |-> q, ret |-> OK]
    IN IF rf.ret # OK THEN [m |-> rf.m, q |-> rf.q, ret |-> rf.ret, at |-> "done", how |-> "refresh"]
       ELSE IF needs /\ Records(m, node) = 1 THEN
         LET sr == Call("apfs_create_single_rec_node", <<rf.m, tree, rf.q, key, val>>)
         IN [m |-> sr.m, q |-> sr.q, ret |-> sr.ret, at |-> "done", how |-> "single"]
       ELSE
         LET sp == Call("apfs_node_split", <<rf.m, tree, rf.q>>)
         IN [m |-> sp.m, q |-> sp.q, ret |-> sp.ret,
             at |-> IF sp.ret # OK THEN "done" ELSE "again", how |-> "split"]

\* a variant of the branch that splits a node of one record too
ReplaceSplitAlways(m, tree, q, key, val) ==
    LET node == Last(q).node
        rootless == Len(q) = 1 /\ ~ apfs_node_is_root(m, node)
        rf == IF rootless THEN Call("apfs_query_refresh", <<m, tree, q>>)
              ELSE [m |-> m, q |-> q, ret |-> OK]
    IN IF rf.ret # OK THEN [m |-> rf.m, q |-> rf.q, ret |-> rf.ret, at |-> "done", how |-> "refresh"]
       ELSE
         LET sp == Call("apfs_node_split", <<rf.m, tree, rf.q>>)
         IN [m |-> sp.m, q |-> sp.q, ret |-> sp.ret,
             at |-> IF sp.ret # OK THEN "done" ELSE "again", how |-> "split"]

ReplaceSplit(m, tree, q, key, val) ==
    LET node == Last(q).node
        rootless == Len(q) = 1 /\ ~ apfs_node_is_root(m, node)
    IN IF rootless /\ Records(m, node) = 1
       THEN [m |-> m, q |-> q, ret |-> EFSCORRUPTED, at |-> "done", how |-> "absurd"]
       ELSE
         LET rf == IF rootless THEN Call("apfs_query_refresh", <<m, tree, q>>)
                   ELSE [m |-> m, q |-> q, ret |-> OK]
         IN IF rf.ret # OK THEN [m |-> rf.m, q |-> rf.q, ret |-> rf.ret, at |-> "done", how |-> "refresh"]
            ELSE
              LET sp == Call("apfs_node_split", <<rf.m, tree, rf.q>>)
              IN [m |-> sp.m, q |-> sp.q, ret |-> sp.ret,
                  at |-> IF sp.ret # OK THEN "done" ELSE "again", how |-> "split"]

RetryOps == {"apfs_btree_insert", "apfs_btree_replace"}
RtKey(op, k) == IF op = "apfs_btree_insert" THEN CatKey(k) ELSE NoKey
RtWant(op) == IF op = "apfs_btree_insert" THEN ENODATA ELSE OK

\* the whole operation, for the choice of what a stale read gives
RtWhole(op, m, k, v) == Call(op, <<m, CAT, CatQuery(m, k).q, RtKey(op, k), v>>)

\* the most splits one call of the loop can make: a node has room for so
\* many records of the shortest kind, and a split leaves fewer in it
MaxSplits == NodeSpace \div 2

\* the turns one call may take before the model gives it up
RtFuel == 2 * MaxSplits + 2

\* one statement of the loop, from the place pc
RtOne(op, m, q, key, val, pc) ==
    IF pc = "again"
    THEN [how |-> "node"] @@
         (IF op = "apfs_btree_insert" THEN InsertTurn(m, CAT, q, key, val)
          ELSE ReplaceTurn(m, CAT, q, key, val))
    ELSE IF op = "apfs_btree_insert" THEN InsertSplit(m, CAT, q, key, val)
    ELSE ReplaceSplit(m, CAT, q, key, val)

\* the statements of the loop one after the other, from the place pc on:
\* what each has left, for as long as the loop goes on
RECURSIVE RtRun(_, _, _, _, _, _, _)
RtMore(op, s, key, val, fuel) ==
    <<s>> \o RtRun(op, s.m, s.q, key, val, s.at, fuel - 1)

RtRun(op, m, q, key, val, pc, fuel) ==
    IF pc = "done" \/ fuel = 0 THEN <<>>
    ELSE RtMore(op, RtOne(op, m, q, key, val, pc), key, val, fuel)

\* the operation up to the label again, on the query of its caller
RtEnter(op, m, k, v) ==
    IF op = "apfs_btree_insert"
    THEN InsertEnter(m, CAT, CatQuery(m, k).q, RtKey(op, k), v)
    ELSE ReplaceEnter(m, CAT, CatQuery(m, k).q, RtKey(op, k), v)

\* the call once e is what the operation has left at the label again
RtBegun(op, k, v, e, whole) ==
    {[m |-> e.m,
      query |-> [pc |-> IF e.ret = OK THEN "again" ELSE "done",
                 op |-> op, q |-> e.q, k |-> k, v |-> v,
                 splits |-> 0, how |-> "enter", ret |-> e.ret,
                 todo |-> RtRun(op, e.m, e.q, RtKey(op, k), v,
                                IF e.ret = OK THEN "again" ELSE "done", RtFuel),
                 whole |-> whole]]}

\* the operation from its call to the label again, with the turns that
\* follow: nothing when the caller's query has not returned what it wants,
\* or when ub is a choice that no read of the operation depends on
RetryBegin(m0, op, k, v, ub) ==
    IF CatQuery(m0, k).ret # RtWant(op) THEN {}
    ELSE IF ub # 0 /\ ~ RtWhole(op, m0, k, v).m.ubused THEN {}
    ELSE RtBegun(op, k, v, RtEnter(op, [m0 EXCEPT !.ub = ub], k, v),
                 RtWhole(op, [m0 EXCEPT !.ub = ub], k, v))

\* ------------------------------------------------------------------ calls
Call(op, a) ==
    CASE op = "apfs_node_query" -> apfs_node_query(a[1], a[2], a[3], a[4])
      [] op = "apfs_read_object_block" -> apfs_read_object_block(a[1], a[2], a[3])
      [] op = "apfs_read_node" -> apfs_read_node(a[1], a[2], a[3], a[4])
      [] op = "apfs_omap_lookup_block" -> apfs_omap_lookup_block(a[1], a[2], a[3], a[4])
      [] op = "apfs_btree_query" -> apfs_btree_query(a[1], a[2], a[3], a[4])
      [] op = "apfs_query_set_before_first" ->
           apfs_query_set_before_first(a[1], a[2], a[3])
      [] op = "apfs_query_join_transaction" ->
           apfs_query_join_transaction(a[1], a[2], a[3])
      [] op = "apfs_query_refresh" -> apfs_query_refresh(a[1], a[2], a[3])
      [] op = "apfs_btree_change_rec_count" ->
           apfs_btree_change_rec_count(a[1], a[2], a[3], a[4], a[5])
      [] op = "apfs_btree_change_node_count" ->
           apfs_btree_change_node_count(a[1], a[2], a[3])
      [] op = "apfs_node_insert" -> apfs_node_insert(a[1], a[2], a[3], a[4], a[5])
      [] op = "apfs_node_replace" -> apfs_node_replace(a[1], a[2], a[3], a[4], a[5])
      [] op = "apfs_btree_insert" -> apfs_btree_insert(a[1], a[2], a[3], a[4], a[5])
      [] op = "InsertAgain" -> InsertAgain(a[1], a[2], a[3], a[4], a[5])
      [] op = "apfs_btree_replace" -> apfs_btree_replace(a[1], a[2], a[3], a[4], a[5])
      [] op = "ReplaceAgain" -> ReplaceAgain(a[1], a[2], a[3], a[4], a[5])
      [] op = "apfs_btree_remove" -> apfs_btree_remove(a[1], a[2], a[3])
      [] op = "RemoveJoined" -> RemoveJoined(a[1], a[2], a[3])
      [] op = "apfs_node_split" -> apfs_node_split(a[1], a[2], a[3])
      [] op = "SplitNonRoot" -> SplitNonRoot(a[1], a[2], a[3])
      [] op = "apfs_btree_inc_height" -> apfs_btree_inc_height(a[1], a[2], a[3])
      [] op = "apfs_create_node" -> apfs_create_node(a[1], a[2])
      [] op = "apfs_create_single_rec_node" ->
           apfs_create_single_rec_node(a[1], a[2], a[3], a[4], a[5])
      [] op = "apfs_delete_node" -> apfs_delete_node(a[1], a[2], a[3])
      [] op = "apfs_create_omap_rec" -> apfs_create_omap_rec(a[1], a[2], a[3])
      [] op = "apfs_delete_omap_rec" -> apfs_delete_omap_rec(a[1], a[2])
      [] op = "StartTransaction" -> StartTransaction(a[1])
      [] op = "DoInsert" -> DoInsert(a[1], a[2], a[3])
      [] op = "DoRemove" -> DoRemove(a[1], a[2], a[3])
      [] op = "DoReplace" -> DoReplace(a[1], a[2], a[3])
      [] op = "Outcomes" -> Outcomes(a[1], a[2], a[3], a[4], a[5])
      [] op = "RetryBegin" -> RetryBegin(a[1], a[2], a[3], a[4], a[5])

\* ================================================================ state
VARIABLES blk, trans, fq, nx_xid, next_oid, s_omap_root, s_cat_root,
          cows, unjoined, asserts,
          in_trans,     \* a transaction is in flight
          nops,         \* tree operations done so far
          failed,       \* an operation of the transaction returned an error
          ckpt,         \* the state published by the last commit
          expect,       \* the records the callers have put in the catalog
          query,        \* a query under way, one step of its loop at a time
          qlife,        \* the queries and node references of one operation
          csum,         \* a block under the checksum functions
          cpm,          \* the checkpoint-mapping block
          lock,         \* an entry point under the filesystem-wide lock
          omap          \* a call into the object map and what it returned

\* what the tree operations leave alone
side == <<query, qlife, csum, cpm, lock, omap>>

vars == <<blk, trans, fq, nx_xid, next_oid, s_omap_root, s_cat_root,
          cows, unjoined, asserts, in_trans, nops, failed, ckpt, expect,
          query, qlife, csum, cpm, lock, omap>>

\* the value of a variable that takes no part in a specification
Idle == [pc |-> "idle"]

\* a device that reads every block and holds no object with a wrong
\* checksum, on a mount that checks the checksum of nodes
NoFaults == [check |-> TRUE, unreadable |-> {}, badcsum |-> {}]

\* the machine state of the engine, before any read through a stale offset
Cur == [blk |-> blk, trans |-> trans, fq |-> fq, nx_xid |-> nx_xid,
        next_oid |-> next_oid, s_omap_root |-> s_omap_root,
        s_cat_root |-> s_cat_root, cows |-> cows, unjoined |-> unjoined,
        asserts |-> asserts, ub |-> 0, ubused |-> FALSE, io |-> NoFaults]

InstallEngine(m) ==
    /\ blk' = m.blk
    /\ trans' = m.trans
    /\ fq' = m.fq
    /\ nx_xid' = m.nx_xid
    /\ next_oid' = m.next_oid
    /\ s_omap_root' = m.s_omap_root
    /\ s_cat_root' = m.s_cat_root
    /\ cows' = m.cows
    /\ unjoined' = m.unjoined
    /\ asserts' = m.asserts

Install(m) == InstallEngine(m) /\ UNCHANGED side

InitBlk ==
    [b \in Bnos |->
       IF b = 1 THEN
         NewNode(OMAP, 1, FirstXid, TRUE, TRUE, 0,
                 <<[k |-> <<CatRootOid, FirstXid>>, v |-> 2]>>,
                 [bt_key_count |-> 1, bt_node_count |-> 1,
                  bt_longest_key |-> 1, bt_longest_val |-> 1])
       ELSE IF b = 2 THEN
         NewNode(CAT, CatRootOid, FirstXid, TRUE, TRUE, 0, <<>>,
                 [bt_key_count |-> 0, bt_node_count |-> 1,
                  bt_longest_key |-> 0, bt_longest_val |-> 0])
       ELSE FreeBlock]

Init ==
    /\ blk = InitBlk
    /\ trans = {}
    /\ fq = <<>>
    /\ nx_xid = FirstXid
    /\ next_oid = CatRootOid + 1
    /\ s_omap_root = 1
    /\ s_cat_root = 2
    /\ cows = {}
    /\ unjoined = {}
    /\ asserts = {}
    /\ in_trans = FALSE
    /\ nops = 0
    /\ failed = FALSE
    /\ ckpt = [blk |-> InitBlk, nx_xid |-> FirstXid, next_oid |-> CatRootOid + 1,
               s_omap_root |-> 1, s_cat_root |-> 2, expect |-> [k \in Keys |-> 0]]
    /\ expect = [k \in Keys |-> 0]
    /\ query = Idle
    /\ qlife = Idle
    /\ csum = Idle
    /\ cpm = Idle
    /\ lock = Idle /\ omap = Idle

\* ---------------------------------------------------------- transactions
Started(r) ==
    /\ Install(r.m)
    /\ failed' = (r.ret # OK)
    /\ in_trans' = TRUE
    /\ UNCHANGED <<nops, ckpt, expect>>

apfs_transaction_start ==
    /\ ~ in_trans
    /\ nx_xid < MaxXid
    /\ Started(Call("StartTransaction", <<Cur>>))

\* the dirty blocks become the new checkpoint; the freed blocks are released
apfs_transaction_commit ==
    /\ in_trans
    /\ ~ failed
    /\ LET freed == {fq[i] : i \in 1..Len(fq)}
           nblk == [b \in Bnos |-> IF b \in freed THEN FreeBlock ELSE blk[b]]
       IN /\ blk' = nblk
          /\ ckpt' = [blk |-> nblk, nx_xid |-> nx_xid, next_oid |-> next_oid,
                      s_omap_root |-> s_omap_root, s_cat_root |-> s_cat_root,
                      expect |-> expect]
    /\ trans' = {}
    /\ fq' = <<>>
    /\ cows' = {}
    /\ in_trans' = FALSE
    /\ UNCHANGED <<nx_xid, next_oid, s_omap_root, s_cat_root, unjoined, asserts,
                   nops, failed, expect, side>>

\* the dirty blocks are dropped; the last checkpoint is the state again
apfs_transaction_abort ==
    /\ in_trans
    /\ blk' = ckpt.blk
    /\ nx_xid' = ckpt.nx_xid
    /\ next_oid' = ckpt.next_oid
    /\ s_omap_root' = ckpt.s_omap_root
    /\ s_cat_root' = ckpt.s_cat_root
    /\ trans' = {}
    /\ fq' = <<>>
    /\ cows' = {}
    /\ in_trans' = FALSE
    /\ failed' = FALSE
    /\ expect' = ckpt.expect
    /\ UNCHANGED <<unjoined, asserts, nops, ckpt, side>>

\* ------------------------------------------------------ catalog operations
Budget == in_trans /\ ~ failed /\ nops < MaxOps

Finish(r) ==
    /\ Install(r.m)
    /\ failed' = (r.ret # OK)
    /\ nops' = nops + 1
    /\ UNCHANGED <<in_trans, ckpt>>

\* the catalog has the value for the key when the operation succeeds
Put(r, k, v) ==
    /\ Finish(r)
    /\ expect' = IF r.ret = OK THEN [expect EXCEPT ![k] = v] ELSE expect

CatInsert(k, v) ==
    /\ Budget
    /\ \E r \in Call("Outcomes", <<"DoInsert", ENODATA, Cur, k, v>>) : Put(r, k, v)

CatRemove(k) ==
    /\ Budget
    /\ \E r \in Call("Outcomes", <<"DoRemove", OK, Cur, k, 0>>) : Put(r, k, 0)

CatReplace(k, v) ==
    /\ Budget
    /\ \E r \in Call("Outcomes", <<"DoReplace", OK, Cur, k, v>>) : Put(r, k, v)

\* ------------------------------------------------------------- tree walks
RootOf(m, tree) == IF tree = OMAP THEN m.s_omap_root ELSE m.s_cat_root

\* the block a child record refers to; 0 when it cannot be resolved
ChildBno(m, tree, id) ==
    LET rn == Call("apfs_read_node", <<m, id, apfs_query_storage(tree), FALSE>>)
    IN IF rn.ret = OK THEN rn.bno ELSE 0

RECURSIVE TreeNodes(_, _, _, _)
TreeNodes(m, tree, bno, fuel) ==
    IF bno = 0 \/ fuel = 0 THEN {}
    ELSE IF m.blk[bno].leaf THEN {bno}
    ELSE {bno} \cup
         UNION {TreeNodes(m, tree, ChildBno(m, tree, m.blk[bno].recs[i].v), fuel - 1) :
                  i \in 1..Records(m, bno)}

RECURSIVE Concat(_)
Concat(ss) == IF ss = <<>> THEN <<>> ELSE Head(ss) \o Concat(Tail(ss))

\* the leaf records of a tree, left to right
RECURSIVE LeafRecs(_, _, _, _)
LeafRecs(m, tree, bno, fuel) ==
    IF bno = 0 \/ fuel = 0 THEN <<>>
    ELSE IF m.blk[bno].leaf THEN m.blk[bno].recs
    ELSE Concat([i \in 1..Records(m, bno) |->
                   LeafRecs(m, tree, ChildBno(m, tree, m.blk[bno].recs[i].v), fuel - 1)])

NodesOf(m, tree) == TreeNodes(m, tree, RootOf(m, tree), MaxDepth)
LeavesOf(m, tree) == LeafRecs(m, tree, RootOf(m, tree), MaxDepth)
Range(s) == {s[i] : i \in 1..Len(s)}
Occurrences(s, x) == Cardinality({i \in 1..Len(s) : s[i] = x})

\* the virtual objects the object map knows
LiveOids(m) == {r.k[1] : r \in Range(LeavesOf(m, OMAP))}

\* the block the object map gives for a virtual object
BlockOf(m, oid) == Call("apfs_omap_lookup_block", <<m, m.s_omap_root, oid, FALSE>>).block

\* ------------------------------------------------------- object operations
\* write access to a virtual object by its id
OmapLookupWrite(oid) ==
    /\ Budget
    /\ oid \in LiveOids(Cur)
    /\ Finish(Call("apfs_omap_lookup_block", <<Cur, s_omap_root, oid, TRUE>>))
    /\ UNCHANGED expect

Next ==
    \/ apfs_transaction_start
    \/ apfs_transaction_commit
    \/ apfs_transaction_abort
    \/ \E k \in Keys, v \in Vals : CatInsert(k, v)
    \/ \E k \in Keys : CatRemove(k)
    \/ \E k \in Keys, v \in Vals : CatReplace(k, v)
    \/ \E oid \in 1..(CatRootOid + 2 * MaxOps) : OmapLookupWrite(oid)

Spec == Init /\ [][Next]_vars

\* ================================================================ properties
Nodes(tree) == NodesOf(Cur, tree)
Leaves(tree) == LeavesOf(Cur, tree)
RootInfo(tree) == blk[RootOf(Cur, tree)].info

\* C1: round trip.  Between operations, an exact query for a key that was
\* inserted (and not removed since) succeeds and points at a leaf record
\* holding exactly that key and the value last given to it; an exact query
\* for a key that was never inserted, or was removed, returns ENODATA.
C1_RoundTrip ==
    ~ failed =>
      \A k \in Keys :
        LET r == CatQuery(Cur, k)
        IN IF expect[k] = 0 THEN r.ret = ENODATA
           ELSE /\ r.ret = OK
                /\ apfs_node_is_leaf(Cur, Last(r.q).node)
                /\ RecAt(Cur, r.q) = [k |-> CatKey(k), v |-> expect[k]]

\* C2: ordering.  Between operations, in every node reachable from the root
\* of a tree the keys are strictly increasing, and in every non-leaf node
\* the key of each record equals the first key of the child it points to.
Sorted(recs) ==
    \A i \in 1..(Len(recs) - 1) : KeyCmp(recs[i].k, recs[i + 1].k) < 0

RoutingOK(m, tree, n) ==
    \/ m.blk[n].leaf
    \/ \A i \in 1..Records(m, n) :
         LET c == ChildBno(m, tree, m.blk[n].recs[i].v)
         IN /\ c # 0
            /\ Records(m, c) > 0
            /\ m.blk[c].recs[1].k = m.blk[n].recs[i].k

Ordered(tree) ==
    \A n \in Nodes(tree) : Sorted(blk[n].recs) /\ RoutingOK(Cur, tree, n)

C2_Ordering == ~ failed => Ordered(CAT) /\ Ordered(OMAP)

\* C3: atomicity.  Whatever a transaction has done, and wherever an error
\* stopped it, every block of the last checkpoint still holds the bytes the
\* checkpoint gave it, and outside a transaction (after a commit or an
\* abort) the blocks and the roots are exactly those of the last checkpoint:
\* an abort leaves no trace of the transaction's mutations.
C3_Atomic ==
    /\ in_trans =>
         \A b \in Bnos : ckpt.blk[b].kind # "free" => blk[b] = ckpt.blk[b]
    /\ ~ in_trans =>
         /\ blk = ckpt.blk
         /\ s_omap_root = ckpt.s_omap_root
         /\ s_cat_root = ckpt.s_cat_root
         /\ next_oid = ckpt.next_oid
         /\ nx_xid = ckpt.nx_xid
         /\ expect = ckpt.expect

\* operations were run and nothing was ever committed: the transaction
\* they ran in was aborted
C3_Aborted == ~ in_trans /\ nops > 0 /\ ckpt.nx_xid = FirstXid

\* C5: copy-on-write happens at most once per object per transaction.  A
\* block that carries the current transaction id is handed out as it is by
\* a write access, and no object has two copies made in one transaction.
C5_CowOnce ==
    in_trans =>
      /\ \A b \in Bnos :
           (blk[b].kind # "free" /\ blk[b].xid = nx_xid) =>
             apfs_read_object_block(Cur, b, TRUE) = [m |-> Cur, bno |-> b, ret |-> OK]
      /\ \A c, d \in cows : (c.tree = d.tree /\ c.oid = d.oid) => c = d
      /\ \A c, d \in cows : c.old = d.old => c = d

\* the catalog root, copied when the transaction started, has been written
\* by two inserts since
C5_WrittenTwice ==
    /\ in_trans
    /\ \E c \in cows :
         /\ c.tree = CAT /\ c.oid = CatRootOid /\ c.new = s_cat_root
         /\ blk[c.new].info.bt_key_count >= blk[c.old].info.bt_key_count + 2

\* C6: copy-on-write never writes the old block.  The block an object was
\* copied from keeps the bytes of the last checkpoint for the rest of the
\* transaction, and a write access leaves the block it is given as it was.
C6_OldIntact ==
    in_trans =>
      /\ \A c \in cows : blk[c.old] = ckpt.blk[c.old]
      /\ \A b \in Bnos :
           blk[b].kind # "free" =>
             apfs_read_object_block(Cur, b, TRUE).m.blk[b] = blk[b]

\* a copy has been changed while the block it was copied from waits in the
\* free queue
C6_CopyChanged ==
    /\ in_trans
    /\ \E c \in cows :
         /\ blk[c.new].recs # blk[c.old].recs
         /\ Occurrences(fq, c.old) = 1

\* C7: no node is written before it has joined the transaction.  No block
\* has been changed while it carried an older transaction id, and none of
\* the in-transaction assertions of the tree operations has failed.
TransLabels == {"rec_count_trans", "node_count_trans", "insert_trans",
                "remove_trans", "replace_trans", "split_trans"}

C10_KeyCount ==
    ~ failed =>
      \A tree \in {CAT, OMAP} : RootInfo(tree).bt_key_count = Len(Leaves(tree))

\* both trees have grown past their root and the catalog holds three records
C10_Grown ==
    /\ ~ failed
    /\ ~ blk[s_omap_root].leaf
    /\ ~ blk[s_cat_root].leaf
    /\ RootInfo(CAT).bt_key_count = 3

\* ------------------------------------------------ write-access lookups
\* the step is a successful write-access lookup of a virtual object whose
\* block was written by an older transaction
FirstWrite(oid) ==
    /\ nops' = nops + 1
    /\ expect' = expect
    /\ ~ failed'
    /\ oid \in LiveOids(Cur)
    /\ blk[BlockOf(Cur, oid)].xid < nx_xid
    /\ OmapLookupWrite(oid)

\* what such a lookup does to the object, the free queue and the object map
LookupEffects(oid) ==
    LET old == BlockOf(Cur, oid)
        new == BlockOf(Cur', oid)
        again == apfs_omap_lookup_block(Cur', s_omap_root', oid, TRUE)
    IN /\ new # old
       /\ blk[new].kind = "free"
       /\ Occurrences(fq, old) = 0
       /\ Occurrences(fq', old) = 1
       /\ blk'[new] = [blk[old] EXCEPT !.xid = nx_xid]
       /\ [k |-> <<oid, nx_xid>>, v |-> new] \in Range(LeavesOf(Cur', OMAP))
       /\ Cardinality({i \in 1..Len(LeavesOf(Cur', OMAP)) :
                         LeavesOf(Cur', OMAP)[i].k[1] = oid}) = 1
       /\ again.ret = OK
       /\ again.block = new
       /\ again.m.blk = blk'
       /\ again.m.fq = fq'

Allocated == FreeBnos(Cur) \ {b \in Bnos : blk'[b].kind = "free"}

\* C4 as stated: the first write-access lookup of a virtual object of an
\* older transaction allocates exactly one new block, puts the old block in
\* the free queue exactly once, leaves the old content stamped with the
\* current transaction id in the new block, and replaces the object-map
\* record so that the next lookup returns the new block and copies nothing.
C4_ExactlyOneBlock ==
    [][\A oid \in 1..(CatRootOid + 2 * MaxOps) :
         FirstWrite(oid) =>
           /\ Cardinality(Allocated) = 1
           /\ LookupEffects(oid)]_vars

\* C4, amended: exactly one new block is allocated for the object; every
\* other block the lookup allocates is the copy of an object-map node that
\* was not yet part of the transaction.  The rest is as stated.
C4_OneBlockForObject ==
    [][\A oid \in 1..(CatRootOid + 2 * MaxOps) :
         FirstWrite(oid) =>
           /\ Cardinality({c \in cows' \ cows : c.tree = CAT}) = 1
           /\ \A c \in cows' \ cows :
                \/ c.tree = OMAP
                \/ c = [tree |-> CAT, oid |-> oid, old |-> BlockOf(Cur, oid),
                        new |-> BlockOf(Cur', oid)]
           /\ Allocated = {c.new : c \in cows' \ cows}
           /\ LookupEffects(oid)]_vars

\* a catalog node other than the root has been copied in this transaction,
\* and the object map gives its new block
C4_Copied ==
    /\ in_trans
    /\ \E c \in cows :
         /\ c.tree = CAT /\ c.oid # CatRootOid
         /\ BlockOf(Cur, c.oid) = c.new
         /\ blk[c.new].recs = blk[c.old].recs

\* ------------------------------------------------------------------ splits
\* the step is a successful insert of a new key
InsertStep(k, v) ==
    in_trans /\ in_trans' /\ ~ failed' /\ expect[k] = 0 /\ expect'[k] = v

OidsOf(m, tree) == {m.blk[n].oid : n \in NodesOf(m, tree)}

\* the child records of a tree that refer to object id
Referrers(m, tree, id) ==
    {<<p, i>> \in NodesOf(m, tree) \X (1..NodeSpace) :
       ~ m.blk[p].leaf /\ i <= Records(m, p) /\ m.blk[p].recs[i].v = id}

\* every node that is new to the tree and stands to the right of a sibling
\* has exactly one record in a parent, keyed by the node's first key
RightNodesRouted(m, tree, known) ==
    \A p \in NodesOf(m, tree) :
      m.blk[p].leaf \/
      \A i \in 2..Records(m, p) :
        LET id == m.blk[p].recs[i].v
            c == ChildBno(m, tree, id)
        IN id \notin known =>
             /\ c # 0
             /\ Records(m, c) > 0
             /\ m.blk[c].recs[1].k = m.blk[p].recs[i].k
             /\ Cardinality(Referrers(m, tree, id)) = 1

\* C9: split correctness.  When an insert makes the catalog grow by a node,
\* the leaf records afterwards are exactly the records before plus the new
\* one, each new right-hand node has exactly one routing record, keyed by
\* its first key, and the root's key count grows by one while its longest
\* key and value lengths cover the new record.
C9_Split ==
    [][\A k \in Keys, v \in Vals :
         (InsertStep(k, v)
            /\ Cardinality(NodesOf(Cur', CAT)) > Cardinality(NodesOf(Cur, CAT))) =>
           /\ Range(LeavesOf(Cur', CAT)) =
                Range(LeavesOf(Cur, CAT)) \cup {[k |-> CatKey(k), v |-> v]}
           /\ Len(LeavesOf(Cur', CAT)) = Len(LeavesOf(Cur, CAT)) + 1
           /\ \E id \in OidsOf(Cur', CAT) : id \notin OidsOf(Cur, CAT)
           /\ RightNodesRouted(Cur', CAT, OidsOf(Cur, CAT))
           /\ \A n \in NodesOf(Cur', CAT) : Records(Cur', n) > 0
           /\ blk'[s_cat_root'].info.bt_key_count = RootInfo(CAT).bt_key_count + 1
           /\ blk'[s_cat_root'].info.bt_longest_key =
                Max({RootInfo(CAT).bt_longest_key, KeyLen(CatKey(k))})
           /\ blk'[s_cat_root'].info.bt_longest_val =
                Max({RootInfo(CAT).bt_longest_val, ValLen(CAT, TRUE, v)})]_vars

\* the catalog root routes to two leaves that hold all the records
C9_TwoLeaves ==
    /\ ~ failed
    /\ ~ blk[s_cat_root].leaf
    /\ Records(Cur, s_cat_root) >= 2
    /\ Len(Leaves(CAT)) = Cardinality({k \in Keys : expect[k] # 0})

\* ====================================================== the query, stepwise
\* apfs_btree_query one turn of its loop at a time, on any tree image: the
\* nodes may be out of order, and a child record may lead back to an
\* ancestor or to a block that holds no object.
QMaxKey == 2       \* the keys of an image are 1..QMaxKey
QMaxRecs == 2      \* a node of an image has up to QMaxRecs records
QNodes == 2        \* an image has QNodes nodes

\* the engine at rest, as Init has it
EngineAtRest ==
    /\ trans = {}
    /\ fq = <<>>
    /\ nx_xid = FirstXid
    /\ next_oid = CatRootOid + 1
    /\ cows = {}
    /\ unjoined = {}
    /\ asserts = {}
    /\ in_trans = FALSE
    /\ nops = 0
    /\ failed = FALSE
    /\ ckpt = [blk |-> InitBlk, nx_xid |-> FirstXid, next_oid |-> CatRootOid + 1,
               s_omap_root |-> 1, s_cat_root |-> 2, expect |-> [k \in Keys |-> 0]]
    /\ expect = [k \in Keys |-> 0]

engine == <<blk, trans, fq, nx_xid, next_oid, s_omap_root, s_cat_root,
            cows, unjoined, asserts, in_trans, nops, failed, ckpt, expect>>

SeqsOf(S, lo, hi) == UNION {[1..n -> S] : n \in lo..hi}

\* a node of an image: a leaf with any records, or a non-leaf node with at
\* least one record; c is the child a record leads to, the last one dangling
QShapes ==
    [leaf : {TRUE}, recs : SeqsOf([k : 1..QMaxKey, c : {1}], 0, QMaxRecs)]
    \cup [leaf : {FALSE},
          recs : SeqsOf([k : 1..QMaxKey, c : 1..(QNodes + 1)], 1, QMaxRecs)]

QKey(tree, k) == IF tree = CAT THEN CatKey(k) ELSE apfs_init_omap_key(k, FirstXid)

\* The nodes of the image are the blocks 2..QNodes+1, the first one the
\* root.  A catalog node is the virtual object bno-1, which the object map
\* in block 1 resolves; an object-map node is physical.
QRoot == 2

QImage(tree, shape) ==
    [b \in Bnos |->
       IF b \in 2..(QNodes + 1) THEN
         NewNode(tree, IF tree = CAT THEN b - 1 ELSE b, FirstXid, b = QRoot,
                 shape[b - 1].leaf, 0,
                 [i \in 1..Len(shape[b - 1].recs) |->
                    [k |-> QKey(tree, shape[b - 1].recs[i].k),
                     v |-> IF tree = CAT THEN shape[b - 1].recs[i].c
                           ELSE shape[b - 1].recs[i].c + 1]],
                 NoInfo)
       ELSE IF b = 1 /\ tree = CAT THEN
         NewNode(OMAP, 1, FirstXid, TRUE, TRUE, 0,
                 [i \in 1..QNodes |-> [k |-> apfs_init_omap_key(i, FirstXid),
                                       v |-> i + 1]],
                 NoInfo)
       ELSE FreeBlock]

\* the flags of a frame that the node search sets
NoFlags == [next |-> FALSE, done |-> FALSE]

\* the search of a frame that has found a record before: the record before it
apfs_node_next(m, tree, key, fr, fl) ==
    IF fl.done THEN [ret |-> ENODATA, index |-> fr.index, fl |-> fl]
    ELSE IF fr.index = 0 THEN [ret |-> EAGAIN, index |-> fr.index, fl |-> fl]
    ELSE
      LET index == fr.index - 1
          cmp == KeyCmp(m.blk[fr.node].recs[index + 1].k, key)
      IN IF cmp > 0 THEN [ret |-> EFSCORRUPTED, index |-> index, fl |-> fl]
         ELSE IF apfs_node_is_leaf(m, fr.node) /\ QueryExact(tree) /\ cmp # 0
              THEN [ret |-> ENODATA, index |-> index, fl |-> fl]
         ELSE [ret |-> OK, index |-> index,
               fl |-> [fl EXCEPT !.done = (cmp # 0)]]

\* the node search of a frame, with the flags of a query for multiple records
NodeSearch(m, tree, key, multiple, fr, fl) ==
    IF fl.next THEN apfs_node_next(m, tree, key, fr, fl)
    ELSE
      LET r == apfs_node_query(m, tree, key, fr)
      IN IF r.ret = OK /\ multiple
         THEN [ret |-> OK, index |-> r.index,
               fl |-> [next |-> TRUE,
                       done |-> KeyCmp(m.blk[fr.node].recs[r.index + 1].k, key) # 0]]
         ELSE [ret |-> r.ret, index |-> r.index, fl |-> fl]

\* a variant of the guard that lets every frame through
NeverTooDeep(fr) == FALSE

\* the guard of both loops
DepthExceeded(fr) == fr.depth >= MaxDepth

\* a variant that keeps the frame it should leave
StayInFrame(s) == s

\* move back up one level
BackUp(s) == Front(s)

Tip == Last(query.chain)
TipSearch == NodeSearch(Cur, query.tree, query.key, query.multiple,
                        Tip, Last(query.flags))
Searched == [query EXCEPT !.chain = SetIndex(@, TipSearch.index),
                          !.flags = SetLast(@, TipSearch.fl),
                          !.searched = @ \cup {Tip.depth}]
Returned(q, ret) == [q EXCEPT !.pc = "done", !.ret = ret]

\* go a level deeper from the record the tip points at
Deeper(q) ==
    LET child_id == apfs_child_from_query(Cur, q.chain)
        rn == apfs_read_node(Cur, child_id, apfs_query_storage(q.tree), FALSE)
    IN IF rn.ret # OK THEN Returned(q, rn.ret)
       ELSE [q EXCEPT !.chain = apfs_alloc_query(Cur, rn.bno, @),
                      !.flags = Append(@, NoFlags)]

QInit ==
    /\ EngineAtRest
    /\ blk = InitBlk
    /\ s_omap_root = 1
    /\ s_cat_root = 2
    /\ query = [pc |-> "mount"]
    /\ qlife = Idle
    /\ csum = Idle
    /\ cpm = Idle
    /\ lock = Idle /\ omap = Idle

QRest == UNCHANGED <<engine, qlife, csum, cpm, lock, omap>>

\* an image is mounted and a caller sets up a query at the root of its tree
QueryBegin(tree, shape, k, multiple) ==
    /\ query.pc = "mount"
    /\ blk' = QImage(tree, shape)
    /\ s_omap_root' = IF tree = CAT THEN 1 ELSE QRoot
    /\ s_cat_root' = QRoot
    /\ query' = [pc |-> "next_node", tree |-> tree, key |-> QKey(tree, k),
                 multiple |-> multiple,
                 chain |-> apfs_alloc_query([blk |-> QImage(tree, shape)],
                                            QRoot, <<>>),
                 flags |-> <<NoFlags>>, ret |-> OK, searched |-> {},
                 ups |-> 0]
    /\ UNCHANGED <<trans, fq, nx_xid, next_oid, cows, unjoined, asserts,
                   in_trans, nops, failed, ckpt, expect, qlife, csum, cpm, lock, omap>>

\* the tree is too deep: corruption
QueryTooDeep ==
    /\ query.pc = "next_node"
    /\ DepthExceeded(Tip)
    /\ query' = Returned(query, EFSCORRUPTED)
    /\ QRest

\* the key comes before all the records of the root
QueryBeforeFirst ==
    /\ query.pc = "next_node"
    /\ ~ DepthExceeded(Tip)
    /\ TipSearch.ret = ENODATA /\ Len(query.chain) = 1 /\ TipSearch.index = -1
    /\ query' = [Searched EXCEPT !.pc = "before_first"]
    /\ QRest

\* a variant that frees the chain down to its root frame
BackUpToRoot ==
    /\ query.pc = "next_node"
    /\ ~ DepthExceeded(Tip)
    /\ TipSearch.ret = EAGAIN /\ Len(query.chain) > 1
    /\ query' = [Searched EXCEPT !.chain = <<Head(@)>>, !.flags = <<Head(@)>>,
                                 !.ups = @ + 1]
    /\ QRest

\* nothing more in this node: the search goes on in the parent
QueryBackUp ==
    /\ query.pc = "next_node"
    /\ ~ DepthExceeded(Tip)
    /\ TipSearch.ret = EAGAIN /\ Len(query.chain) > 1
    /\ query' = [Searched EXCEPT !.chain = BackUp(@), !.flags = BackUp(@),
                                 !.ups = @ + 1]
    /\ QRest

\* nothing more in the root, or the node search failed
QueryFail ==
    /\ query.pc = "next_node"
    /\ ~ DepthExceeded(Tip)
    /\ TipSearch.ret # OK
    /\ ~ (TipSearch.ret = ENODATA /\ Len(query.chain) = 1 /\ TipSearch.index = -1)
    /\ ~ (TipSearch.ret = EAGAIN /\ Len(query.chain) > 1)
    /\ query' = Returned(Searched,
                         IF TipSearch.ret = EAGAIN THEN ENODATA ELSE TipSearch.ret)
    /\ QRest

\* the record is in a leaf: all done
QueryFound ==
    /\ query.pc = "next_node"
    /\ ~ DepthExceeded(Tip)
    /\ TipSearch.ret = OK
    /\ apfs_node_is_leaf(Cur, Tip.node)
    /\ query' = Returned(Searched, OK)
    /\ QRest

\* the record leads to a child: search it
QueryDescend ==
    /\ query.pc = "next_node"
    /\ ~ DepthExceeded(Tip)
    /\ TipSearch.ret = OK
    /\ ~ apfs_node_is_leaf(Cur, Tip.node)
    /\ query' = Deeper(Searched)
    /\ QRest

\* apfs_query_set_before_first, one turn of its loop at a time
BeforeFirstTooDeep ==
    /\ query.pc = "before_first"
    /\ DepthExceeded(Tip)
    /\ query' = Returned(query, EFSCORRUPTED)
    /\ QRest

\* a variant that stops at the first record of the leaf
BeforeFirstAtZero ==
    /\ query.pc = "before_first"
    /\ ~ DepthExceeded(Tip)
    /\ apfs_node_is_leaf(Cur, Tip.node)
    /\ query' = Returned([query EXCEPT !.chain = SetIndex(@, 0)], ENODATA)
    /\ QRest

BeforeFirstLeaf ==
    /\ query.pc = "before_first"
    /\ ~ DepthExceeded(Tip)
    /\ apfs_node_is_leaf(Cur, Tip.node)
    /\ query' = Returned([query EXCEPT !.chain = SetIndex(@, -1)], ENODATA)
    /\ QRest

BeforeFirstDescend ==
    /\ query.pc = "before_first"
    /\ ~ DepthExceeded(Tip)
    /\ ~ apfs_node_is_leaf(Cur, Tip.node)
    /\ query' = Deeper([query EXCEPT !.chain = SetIndex(@, 0),
                                     !.searched = @ \cup {Tip.depth}])
    /\ QRest

\* the caller of a query for multiple records asks for the next one
QueryAgain ==
    /\ query.pc = "done"
    /\ query.ret = OK
    /\ query.multiple
    /\ query' = [query EXCEPT !.pc = "next_node"]
    /\ QRest

QueryStep ==
    \/ QueryTooDeep
    \/ QueryBeforeFirst
    \/ QueryBackUp
    \/ QueryFail
    \/ QueryFound
    \/ QueryDescend
    \/ BeforeFirstTooDeep
    \/ BeforeFirstLeaf
    \/ BeforeFirstDescend

QueryMount ==
    /\ query.pc = "mount"
    /\ \E tree \in {CAT, OMAP}, shape \in [1..QNodes -> QShapes],
          k \in 1..QMaxKey, multiple \in BOOLEAN :
         QueryBegin(tree, shape, k, multiple)

QNext ==
    \/ QueryMount
    \/ QueryStep
    \/ QueryAgain

SpecQuery == QInit /\ [][QNext]_vars

\* C11: depth guard.  No node search runs on a frame of depth 12 or more and
\* no descent starts from one (neither in apfs_btree_query nor in
\* apfs_query_set_before_first); the frames of a chain have the depths 0, 1,
\* 2, ... and only the last one can have depth 12, and then the call
\* returns -EFSCORRUPTED right away, whatever the image.
C11_DepthGuard ==
    query.pc # "mount" =>
    /\ \A d \in query.searched : d < MaxDepth
    /\ \A i \in 1..Len(query.chain) : query.chain[i].depth = i - 1
    /\ Len(query.chain) <= MaxDepth + 1
    /\ Tip.depth >= MaxDepth =>
         /\ query.pc # "done" =>
              ENABLED (QueryTooDeep \/ BeforeFirstTooDeep)
         /\ query.pc = "done" => query.ret = EFSCORRUPTED

\* a child record led back to an ancestor, and the call has returned
\* -EFSCORRUPTED on reaching depth 12
C11_CycleCut ==
    /\ query.pc = "done"
    /\ query.ret = EFSCORRUPTED
    /\ Tip.depth = MaxDepth
    /\ \E i, j \in 1..Len(query.chain) :
         i < j /\ query.chain[i].node = query.chain[j].node

\* the position of a chain: the indexes of its frames, topmost first
Position(chain) == [i \in 1..Len(chain) |-> chain[i].index]

\* position a comes before position b: at the first frame where they differ
\* a has the smaller index, or a has no such frame any more
ComesBefore(a, b) ==
    \E i \in 1..Len(b) :
      /\ \A j \in 1..(i - 1) : j <= Len(a) /\ a[j] = b[j]
      /\ \/ Len(a) = i - 1
         \/ Len(a) >= i /\ a[i] < b[i]

\* what a turn of the loops does: the search moves the position backwards,
\* the walk to the first leaf goes one level down, or the call is over
Progress ==
    \/ query'.pc = "done"
    \/ query.pc = "next_node" /\ query'.pc = "before_first"
    \/ /\ query.pc = "next_node" /\ query'.pc = "next_node"
       /\ ComesBefore(Position(query'.chain), Position(query.chain))
    \/ /\ query.pc = "before_first" /\ query'.pc = "before_first"
       /\ Len(query'.chain) = Len(query.chain) + 1

\* C12: query termination.  Every call of apfs_btree_query returns, on any
\* image: each turn of its loop moves the position of the chain strictly
\* backwards (a node search resumes from the index of its frame, and a
\* frame left on -EAGAIN is gone), what a call returns is 0, -ENODATA or an
\* error, and no behaviour takes turns of the loop forever, so descending
\* and backing up cannot repeat without end.
C12_Terminates ==
    /\ [][query.pc \in {"next_node", "before_first"} => Progress]_vars
    /\ [](query.pc = "done" =>
            query.ret \in {OK, ENODATA, EFSCORRUPTED, EFSBADCRC})
    /\ <>[][query.pc \notin {"next_node", "before_first"}]_vars

\* a call has backed up a level on -EAGAIN, has searched on in the parent
\* and has returned the record it found below
C12_BackedUp ==
    /\ query.pc = "done"
    /\ query.ret = OK
    /\ query.ups > 0
    /\ Len(query.chain) > 1

-----------------------------------------------------------------------------
\* the life of a query: frames and node references
\*
\* An operation allocates a query on a root node, lets apfs_btree_query
\* push and pop frames, may make the found node join the transaction, and
\* leaves through one of its exits.  The outcome of every call into the tree
\* is any of the outcomes the call has.

QlNodeCount == 3
QlMaxCalls == 2
QlMaxDepth == 2

QlNodes == 1..QlNodeCount
QlRootNode == 1

QlOps == {"apfs_omap_lookup_block", "apfs_create_omap_rec",
          "apfs_delete_omap_rec", "apfs_query_refresh",
          "apfs_create_dstream_rec", "apfs_put_dstream_rec",
          "apfs_crypto_adj_refcnt", "apfs_update_inode"}
QlRets == {OK, ENODATA, EFSCORRUPTED, ENOSPC}

Count(s, n) == Cardinality({i \in 1..Len(s) : s[i] = n})

\* the reference of the superblock on the root node
SbRefs == [n \in QlNodes |-> IF n = QlRootNode THEN 1 ELSE 0]

\* a frame that takes no reference
NoGet(refs, n) == refs

apfs_node_get(refs, n) == [refs EXCEPT ![n] = @ + 1]
apfs_node_put(refs, n) == [refs EXCEPT ![n] = @ - 1]

\* apfs_alloc_query: the new frame takes a reference on its node
AllocFrame(q, n) ==
    [q EXCEPT !.own = Append(@, n), !.refs = apfs_node_get(@, n)]

\* apfs_free_query on the frames of a chain: each frame drops its reference
RECURSIVE PutAll(_, _)
PutAll(refs, chain) ==
    IF chain = <<>> THEN refs
    ELSE PutAll(apfs_node_put(refs, Last(chain)), Front(chain))

apfs_free_query(q) == [q EXCEPT !.own = <<>>, !.refs = PutAll(@, q.own)]

\* what an operation may do next, after its query has returned ("queried")
\* and after the found node has joined the transaction ("joined"): make the
\* node join ("join"), hand the ancestors over ("transfer"), free the query
\* and return ("free"), or return at once ("return")
omap_lookup_block_exits(pc, ret) ==
    IF pc = "queried" /\ ret = OK THEN {"free", "join"} ELSE {"free"}
create_omap_rec_exits(pc, ret) ==
    IF pc = "queried" /\ ret \in {OK, ENODATA} THEN {"join"} ELSE {"free"}
delete_omap_rec_exits(pc, ret) ==
    IF pc = "queried" /\ ret = OK THEN {"join"} ELSE {"free"}
query_refresh_exits(pc, ret) ==
    IF pc = "queried" /\ ret = OK THEN {"transfer"} ELSE {"free"}
apfs_create_dstream_rec(pc, ret) ==
    IF pc = "queried" /\ ret = ENODATA THEN {"join"} ELSE {"free"}
apfs_put_dstream_rec(pc, ret) ==
    IF pc = "queried" /\ ret = OK THEN {"free", "join"} ELSE {"free"}
apfs_crypto_adj_refcnt(pc, ret) ==
    IF pc = "queried"
    THEN IF ret # OK THEN {"free"} ELSE {"join"}
    ELSE IF ret # OK THEN {"return"} ELSE {"free"}
apfs_update_inode(pc, ret) ==
    IF pc = "queried" /\ ret = OK THEN {"free", "join"} ELSE {"free"}

Exits(op, pc, ret) ==
    CASE op = "apfs_omap_lookup_block" -> omap_lookup_block_exits(pc, ret)
      [] op = "apfs_create_omap_rec" -> create_omap_rec_exits(pc, ret)
      [] op = "apfs_delete_omap_rec" -> delete_omap_rec_exits(pc, ret)
      [] op = "apfs_query_refresh" -> query_refresh_exits(pc, ret)
      [] op = "apfs_create_dstream_rec" -> apfs_create_dstream_rec(pc, ret)
      [] op = "apfs_put_dstream_rec" -> apfs_put_dstream_rec(pc, ret)
      [] op = "apfs_crypto_adj_refcnt" -> apfs_crypto_adj_refcnt(pc, ret)
      [] op = "apfs_update_inode" -> apfs_update_inode(pc, ret)

QlInit ==
    /\ EngineAtRest /\ blk = InitBlk /\ s_omap_root = 1 /\ s_cat_root = 2
    /\ query = Idle /\ csum = Idle /\ cpm = Idle /\ lock = Idle /\ omap = Idle
    /\ qlife = [pc |-> "call", op |-> "none", own |-> <<>>, caller |-> <<>>,
                lost |-> <<>>, refs |-> SbRefs, before |-> SbRefs,
                ret |-> OK, calls |-> 0, swapped |-> FALSE]

QlRest == UNCHANGED <<engine, query, csum, cpm, lock, omap>>

\* the chains a caller of apfs_query_refresh may hold: a leaf frame below
\* frames of its ancestors
CallerChains(op) ==
    IF op = "apfs_query_refresh"
    THEN {<<QlRootNode>> \o s : s \in SeqsOf(QlNodes \ {QlRootNode}, 1, 1)}
    ELSE {<<>>}

RECURSIVE GetAll(_, _)
GetAll(refs, chain) ==
    IF chain = <<>> THEN refs
    ELSE GetAll(apfs_node_get(refs, Last(chain)), Front(chain))

\* an operation is called and allocates its query on the root node
QlEnter(op, held) ==
    /\ qlife.pc = "call"
    /\ qlife.calls < QlMaxCalls
    /\ qlife' = AllocFrame([qlife EXCEPT !.pc = "query", !.op = op,
                                         !.caller = held,
                                         !.refs = GetAll(@, held),
                                         !.before = qlife.refs,
                                         !.ret = OK, !.calls = @ + 1,
                                         !.swapped = FALSE],
                           QlRootNode)
    /\ QlRest

\* apfs_btree_query goes down: the child is read, a frame is allocated on
\* it, and the reference of the read is dropped
QlDescend(n) ==
    /\ qlife.pc = "query"
    /\ Len(qlife.own) < QlMaxDepth
    /\ LET read == [qlife EXCEPT !.refs = apfs_node_get(@, n)]
           framed == AllocFrame(read, n)
       IN qlife' = [framed EXCEPT !.refs = apfs_node_put(@, n)]
    /\ QlRest

\* apfs_btree_query backs up on -EAGAIN: the frame is freed without its
\* parent
QlBackUp ==
    /\ qlife.pc = "query"
    /\ Len(qlife.own) > 1
    /\ qlife' = [qlife EXCEPT !.own = Front(@),
                              !.refs = apfs_node_put(@, Last(qlife.own))]
    /\ QlRest

\* apfs_btree_query returns
QlQueried(ret) ==
    /\ qlife.pc = "query"
    /\ qlife' = [qlife EXCEPT !.pc = "queried", !.ret = ret]
    /\ QlRest

\* apfs_query_join_transaction: the node is in the transaction already
\* (n is the node of the frame), or its copy n is read and replaces it in
\* the frame, which may then fail to update the parent; or the read fails
QlJoin(n, ret) ==
    /\ qlife.pc = "queried"
    /\ "join" \in Exits(qlife.op, qlife.pc, qlife.ret)
    /\ LET old == Last(qlife.own) IN
       \/ /\ n = old /\ ret = OK
          /\ qlife' = [qlife EXCEPT !.pc = "joined", !.ret = OK]
       \/ /\ n = old /\ ret # OK
          /\ qlife' = [qlife EXCEPT !.pc = "joined", !.ret = ret]
       \/ /\ n # old
          /\ ret # OK => Len(qlife.own) > 1
          /\ qlife' = [qlife EXCEPT
                         !.pc = "joined", !.ret = ret, !.swapped = TRUE,
                         !.own = Front(@) \o <<n>>,
                         !.refs = apfs_node_put(apfs_node_get(@, n), old)]
    /\ QlRest

\* apfs_query_refresh: the ancestors of the caller's query are freed and the
\* ancestors of the new query take their place
QlTransfer ==
    /\ qlife.pc = "queried"
    /\ "transfer" \in Exits(qlife.op, qlife.pc, qlife.ret)
    /\ qlife' = [qlife EXCEPT
                   !.pc = "joined",
                   !.refs = PutAll(@, Front(qlife.caller)),
                   !.caller = Front(qlife.own) \o <<Last(qlife.caller)>>,
                   !.own = <<Last(qlife.own)>>]
    /\ QlRest

\* the exit through apfs_free_query
QlFree ==
    /\ qlife.pc \in {"queried", "joined"}
    /\ "free" \in Exits(qlife.op, qlife.pc, qlife.ret)
    /\ qlife' = [apfs_free_query(qlife) EXCEPT !.pc = "returned"]
    /\ QlRest

\* the exit that returns at once
QlReturn ==
    /\ qlife.pc \in {"queried", "joined"}
    /\ "return" \in Exits(qlife.op, qlife.pc, qlife.ret)
    /\ qlife' = [qlife EXCEPT !.pc = "returned"]
    /\ QlRest

\* back in the caller: the caller frees its own query; frames the operation
\* has left behind stay as they are, and nothing points at them any more
QlBack ==
    /\ qlife.pc = "returned"
    /\ qlife' = [qlife EXCEPT !.pc = "call", !.op = "none",
                              !.refs = PutAll(@, qlife.caller),
                              !.caller = <<>>,
                              !.lost = @ \o qlife.own,
                              !.own = <<>>]
    /\ QlRest

QlNext ==
    \/ \E op \in QlOps : \E held \in CallerChains(op) : QlEnter(op, held)
    \/ \E n \in QlNodes \ {QlRootNode} : QlDescend(n)
    \/ QlBackUp
    \/ \E ret \in QlRets : QlQueried(ret)
    \/ \E n \in QlNodes \ {QlRootNode}, ret \in QlRets : QlJoin(n, ret)
    \/ QlTransfer
    \/ QlFree
    \/ QlReturn
    \/ QlBack

SpecQlife == QlInit /\ [][QlNext]_vars

LiveFrames == qlife.own \o qlife.caller \o qlife.lost

\* C13: no query leak.  When an operation that allocated a query has
\* returned, on any of its exits, no frame of its query is live any more
\* and every node has the references it had before the call, but for the
\* frames that are in the caller's own query.
C13_NoLeak ==
    qlife.pc = "returned" =>
      /\ qlife.own = <<>>
      /\ \A n \in QlNodes :
           qlife.refs[n] = qlife.before[n] + Count(qlife.caller, n)

\* C14: reference counts.  Each live frame holds exactly one reference on
\* its node: the count of a node is what the superblock holds plus the
\* number of live frames on it, so no node with a live frame is released;
\* and once the chain has been freed the counts are those from before the
\* call.
C14_RefCounts ==
    /\ \A n \in QlNodes :
         qlife.refs[n] = SbRefs[n] + Count(LiveFrames, n)
    /\ \A i \in 1..Len(LiveFrames) : qlife.refs[LiveFrames[i]] >= 1
    /\ (qlife.pc = "returned" /\ qlife.own = <<>>) =>
         \A n \in QlNodes :
           qlife.refs[n] = qlife.before[n] + Count(qlife.caller, n)

\* the node of a frame has been replaced by its copy, the chain has been
\* freed, and the copy is released
C14_SwappedAndFreed ==
    /\ qlife.pc = "returned"
    /\ qlife.own = <<>>
    /\ qlife.ret = OK
    /\ qlife.op = "apfs_update_inode"
    /\ qlife.swapped
    /\ qlife.lost = <<>>
    /\ \A n \in QlNodes : qlife.refs[n] = SbRefs[n]

-----------------------------------------------------------------------------
\* the checksum of an object
\*
\* An object is the sequence of the bytes of its block; o_cksum is its first
\* eight bytes.  A 32-bit word is the pair <<high half, low half>> of its
\* 16-bit halves, and a 64-bit value the pair <<high word, low word>>.

APFS_MAX_CKSUM_SIZE == 8
CsWords == 2

Byte == 0..255
Half == 256 * 256
s_blocksize == APFS_MAX_CKSUM_SIZE + 4 * CsWords

\* a conversion that drops the highest byte
Le24(b) == <<b[3], b[2] * 256 + b[1]>>

le32_to_cpu(b) == <<b[4] * 256 + b[3], b[2] * 256 + b[1]>>
cpu_to_le32(w) == <<w[2] % 256, w[2] \div 256, w[1] % 256, w[1] \div 256>>
le64_to_cpu(b) == <<le32_to_cpu(SubSeq(b, 5, 8)), le32_to_cpu(SubSeq(b, 1, 4))>>
cpu_to_le64(x) == cpu_to_le32(x[2]) \o cpu_to_le32(x[1])

\* the remainder of a 32-bit word divided by 0xFFFFFFFF
Rem32(w) == IF w = <<Half - 1, Half - 1>> THEN <<0, 0>> ELSE w

\* the remainder of a + b divided by 0xFFFFFFFF, for two remainders: the
\* carry out of 32 bits is worth one
AddRem(a, b) ==
    LET lo == a[2] + b[2]
        hi == a[1] + b[1] + (lo \div Half)
        carry == hi \div Half
        lo1 == (lo % Half) + carry
        hi1 == (hi % Half) + (lo1 \div Half)
    IN Rem32(<<hi1 % Half, lo1 % Half>>)

\* 0xFFFFFFFF - r for a remainder r
FromAllOnes(r) == <<Half - 1 - r[1], Half - 1 - r[2]>>

\* the loop of apfs_fletcher64 from word i on.  The code adds up in 64 bits,
\* which a block of at most 2^16 bytes cannot overflow, and divides at the
\* end; the sums are kept here by their remainders
RECURSIVE Sums(_, _, _, _)
Sums(buff, i, sum1, sum2) ==
    IF i > Len(buff) \div 4 THEN <<sum1, sum2>>
    ELSE LET s1 == AddRem(sum1, Rem32(le32_to_cpu(SubSeq(buff, 4 * i - 3, 4 * i))))
         IN Sums(buff, i + 1, s1, AddRem(sum2, s1))

apfs_fletcher64(buff) ==
    LET s == Sums(buff, 1, <<0, 0>>, <<0, 0>>)
        c1 == FromAllOnes(AddRem(s[1], s[2]))
        c2 == FromAllOnes(AddRem(s[1], Rem32(c1)))
    IN <<c2, c1>>

\* a checksum over the object with its checksum field
WholeObject(obj) == obj

\* the bytes the checksum is computed over
AfterCksum(obj) == SubSeq(obj, APFS_MAX_CKSUM_SIZE + 1, s_blocksize)

apfs_obj_verify_csum(obj) ==
    le64_to_cpu(SubSeq(obj, 1, APFS_MAX_CKSUM_SIZE)) = apfs_fletcher64(AfterCksum(obj))

apfs_obj_set_csum(obj) ==
    cpu_to_le64(apfs_fletcher64(AfterCksum(obj)))
      \o SubSeq(obj, APFS_MAX_CKSUM_SIZE + 1, Len(obj))

\* the objects a block may hold before its checksum is set: a stale
\* checksum field, and words with bytes of all zeroes and all ones
CsObjects ==
    {[i \in 1..APFS_MAX_CKSUM_SIZE |-> c] \o d :
       c \in {0, 255}, d \in [1..(4 * CsWords) -> {0, 255}]}

CsInit ==
    /\ EngineAtRest /\ blk = InitBlk /\ s_omap_root = 1 /\ s_cat_root = 2
    /\ query = Idle /\ qlife = Idle /\ cpm = Idle /\ lock = Idle /\ omap = Idle
    /\ \E obj \in CsObjects : csum = [pc |-> "fresh", obj |-> obj, was |-> obj]

CsRest == UNCHANGED <<engine, query, qlife, cpm, lock, omap>>

SetCsum ==
    /\ csum.pc = "fresh"
    /\ csum' = [pc |-> "set", obj |-> apfs_obj_set_csum(csum.obj), was |-> csum.obj]
    /\ CsRest

\* one byte after the checksum field gets another value
ChangeByte(i, v) ==
    /\ csum.pc = "set"
    /\ csum.obj[i] # v
    /\ csum' = [pc |-> "changed", obj |-> [csum.obj EXCEPT ![i] = v],
                was |-> csum.obj]
    /\ CsRest

ChangeAnyByte ==
    /\ csum.pc = "set"
    /\ \E i \in (APFS_MAX_CKSUM_SIZE + 1)..s_blocksize, v \in Byte :
         ChangeByte(i, v)

CsNext == SetCsum \/ ChangeAnyByte

SpecCsum == CsInit /\ [][CsNext]_vars

\* C15: checksum round trip.  Right after apfs_obj_set_csum the object
\* verifies, only the eight bytes of the checksum field may differ from the
\* object before, and setting the checksum once more changes nothing.
C15_RoundTrip ==
    csum.pc = "set" =>
      /\ apfs_obj_verify_csum(csum.obj)
      /\ Len(csum.obj) = Len(csum.was)
      /\ \A i \in (APFS_MAX_CKSUM_SIZE + 1)..s_blocksize : csum.obj[i] = csum.was[i]
      /\ apfs_obj_set_csum(csum.obj) = csum.obj

\* the checksum has been set on an object with words of all ones, and the
\* field has changed
C15_Set ==
    /\ csum.pc = "set"
    /\ csum.obj # csum.was
    /\ \E i \in (APFS_MAX_CKSUM_SIZE + 1)..s_blocksize : csum.obj[i] = 255

\* C16: checksum detection.  An object that verified and then had one byte
\* after the checksum field changed does not verify.
C16_Detected ==
    csum.pc = "changed" =>
      /\ apfs_obj_verify_csum(csum.was)
      /\ ~ apfs_obj_verify_csum(csum.obj)

\* the highest byte of a word of a verified object has gone from 0 to 255
C16_Changed ==
    /\ csum.pc = "changed"
    /\ csum.was[s_blocksize] = 0
    /\ csum.obj[s_blocksize] = 255

-----------------------------------------------------------------------------
\* the checkpoint mappings of the ephemeral objects
\*
\* The descriptor area holds desc_len - 1 mapping blocks before the
\* superblock; a mapping block is the sequence cpm_map[0..cpm_count-1] of
\* its mappings.  The blocks of the ephemeral objects are in the data area,
\* a ring of nx_xp_data_blocks blocks that starts at nx_xp_data_index.

EOPNOTSUPP == "EOPNOTSUPP"

nx_xp_data_base == 4
nx_xp_data_blocks == 3
CpmMaxMaps == 3
CpmMaxOid == 2

CpmOids == 1..CpmMaxOid
DataBnos == nx_xp_data_base..(nx_xp_data_base + nx_xp_data_blocks - 1)
apfs_max_maps_per_block == CpmMaxMaps

apfs_index_in_data_area(c, bno) ==
    (bno - nx_xp_data_base + nx_xp_data_blocks - c.nx_xp_data_index)
       % nx_xp_data_blocks

\* an address past the end of the data area
BnoPastEnd(c, index) == nx_xp_data_base + index + c.nx_xp_data_index

apfs_data_index_to_bno(c, index) ==
    nx_xp_data_base + ((index + c.nx_xp_data_index) % nx_xp_data_blocks)

\* the last match of a mapping block
LookupLast(map, oid) ==
    IF \E i \in 1..Len(map) : map[i].cpm_oid = oid
    THEN [ret |-> OK,
          bno |-> map[Max({i \in 1..Len(map) : map[i].cpm_oid = oid})].cpm_paddr]
    ELSE [ret |-> EAGAIN, bno |-> 0]

\* the loop of apfs_cpm_lookup_oid from entry i on
RECURSIVE CpmScan(_, _, _)
CpmScan(map, oid, i) ==
    IF i > Len(map) THEN [ret |-> EAGAIN, bno |-> 0]
    ELSE IF map[i].cpm_oid = oid THEN [ret |-> OK, bno |-> map[i].cpm_paddr]
    ELSE CpmScan(map, oid, i + 1)

apfs_cpm_lookup_oid(map, oid) ==
    IF Len(map) > apfs_max_maps_per_block
    THEN [ret |-> EFSCORRUPTED, bno |-> 0]
    ELSE CpmScan(map, oid, 1)

\* the mapping block apfs_read_cpm_block reads: the last one
CpmBlock(c) == Len(c.blocks)

\* the loop of apfs_read_ephemeral_object from mapping block i on
RECURSIVE EphemeralScan(_, _, _)
EphemeralScan(c, oid, i) ==
    IF i > Len(c.blocks) THEN [ret |-> EFSCORRUPTED, bno |-> 0]
    ELSE LET r == apfs_cpm_lookup_oid(c.blocks[i], oid)
         IN IF r.ret = EAGAIN THEN EphemeralScan(c, oid, i + 1) ELSE r

apfs_read_ephemeral_object(c, oid) == EphemeralScan(c, oid, 1)

\* a variant that takes one mapping more than a block holds
CreateOneMore(c, oid, bno) ==
    LET map == c.blocks[CpmBlock(c)] IN
    IF Len(map) > apfs_max_maps_per_block
    THEN [c |-> c, ret |-> EOPNOTSUPP]
    ELSE [c |-> [c EXCEPT !.blocks[CpmBlock(c)] =
                              Append(map, [cpm_oid |-> oid, cpm_paddr |-> bno])],
          ret |-> OK]

apfs_create_cpoint_map(c, oid, bno) ==
    LET map == c.blocks[CpmBlock(c)] IN
    IF Len(map) >= apfs_max_maps_per_block
    THEN [c |-> c, ret |-> EOPNOTSUPP]
    ELSE [c |-> [c EXCEPT !.blocks[CpmBlock(c)] =
                              Append(map, [cpm_oid |-> oid, cpm_paddr |-> bno])],
          ret |-> OK]

apfs_remove_cpoint_map(c, bno) ==
    LET map == c.blocks[CpmBlock(c)]
        bno_off == apfs_index_in_data_area(c, bno)
        found == {i \in 1..Len(map) : map[i].cpm_paddr = bno}
        moved == [i \in 1..Len(map) |->
                    LET curr_off == apfs_index_in_data_area(c, map[i].cpm_paddr)
                    IN IF curr_off > bno_off
                       THEN [map[i] EXCEPT
                               !.cpm_paddr = apfs_data_index_to_bno(c, curr_off - 1)]
                       ELSE map[i]]
    IN IF Len(map) > apfs_max_maps_per_block
       THEN [c |-> c, ret |-> EFSCORRUPTED]
       ELSE IF found = {}
       THEN [c |-> [c EXCEPT !.blocks[CpmBlock(c)] = moved], ret |-> EFSCORRUPTED]
       ELSE [c |-> [c EXCEPT !.blocks[CpmBlock(c)] = RemoveAt(moved, Max(found))],
             ret |-> OK]

NoMade == [o \in CpmOids |-> 0]
NoCall == [op |-> "none", oid |-> 0, bno |-> 0, ret |-> OK]

CpmInit ==
    /\ EngineAtRest /\ blk = InitBlk /\ s_omap_root = 1 /\ s_cat_root = 2
    /\ query = Idle /\ qlife = Idle /\ csum = Idle /\ lock = Idle /\ omap = Idle
    /\ \E index \in 0..(nx_xp_data_blocks - 1) :
       \E before \in {<<>>, <<<<>>>>,
                      <<<<[cpm_oid |-> 1, cpm_paddr |-> nx_xp_data_base]>>>>} :
         cpm = [pc |-> "run", nx_xp_data_index |-> index,
                blocks |-> before \o <<<<>>>>,
                was |-> <<>>, last |-> NoCall, made |-> NoMade]

CpmRest == UNCHANGED <<engine, query, qlife, csum, lock, omap>>

Called(c, op, oid, bno, ret) ==
    [c EXCEPT !.was = cpm.blocks[CpmBlock(cpm)],
              !.last = [op |-> op, oid |-> oid, bno |-> bno, ret |-> ret]]

CpmCreate(oid, bno) ==
    /\ cpm.pc = "run"
    /\ LET r == apfs_create_cpoint_map(cpm, oid, bno)
           new == r.ret = OK /\ apfs_read_ephemeral_object(cpm, oid).ret # OK
       IN cpm' = [Called(r.c, "create", oid, bno, r.ret) EXCEPT
                    !.made[oid] = IF new THEN bno ELSE @]
    /\ CpmRest

CpmRemove(bno) ==
    /\ cpm.pc = "run"
    /\ LET r == apfs_remove_cpoint_map(cpm, bno)
       IN cpm' = [Called(r.c, "remove", 0, bno, r.ret) EXCEPT !.made = NoMade]
    /\ CpmRest

CpmRead(oid) ==
    /\ cpm.pc = "run"
    /\ LET r == apfs_read_ephemeral_object(cpm, oid)
       IN cpm' = Called(cpm, "read", oid, r.bno, r.ret)
    /\ CpmRest

CpmNext ==
    \/ \E oid \in CpmOids, bno \in DataBnos : CpmCreate(oid, bno)
    \/ \E bno \in DataBnos : CpmRemove(bno)
    \/ \E oid \in CpmOids : CpmRead(oid)

SpecCpm == CpmInit /\ [][CpmNext]_vars

CpmMap == cpm.blocks[CpmBlock(cpm)]
OffsetOf(m) == apfs_index_in_data_area(cpm, m.cpm_paddr)
Offsets(map) == {OffsetOf(map[i]) : i \in 1..Len(map)}
\* the entries of a block occupy the offsets 0..n-1, one each
Compact(map) ==
    /\ Offsets(map) = 0..(Len(map) - 1)
    /\ \A i, j \in 1..Len(map) : OffsetOf(map[i]) = OffsetOf(map[j]) => i = j

\* C17: checkpoint-map renumbering.  After a successful
\* apfs_remove_cpoint_map(bno) on a block whose n entries occupied the
\* offsets 0..n-1, the block has the n-1 other entries in their order, with
\* their oids, at the offsets 0..n-2: an entry that was after bno in the
\* ring is one offset back, at an address of the data area, and an entry
\* that was before it has kept its address.
C17_Renumbered ==
    (cpm.last.op = "remove" /\ cpm.last.ret = OK /\ Compact(cpm.was)) =>
      LET n == Len(cpm.was)
          k == CHOOSE i \in 1..n : cpm.was[i].cpm_paddr = cpm.last.bno
          old(i) == cpm.was[IF i < k THEN i ELSE i + 1]
      IN /\ Len(CpmMap) = n - 1
         /\ Compact(CpmMap)
         /\ \A i \in 1..(n - 1) :
              /\ CpmMap[i].cpm_oid = old(i).cpm_oid
              /\ CpmMap[i].cpm_paddr \in DataBnos
              /\ IF OffsetOf(old(i)) > OffsetOf(cpm.was[k])
                 THEN OffsetOf(CpmMap[i]) = OffsetOf(old(i)) - 1
                 ELSE CpmMap[i].cpm_paddr = old(i).cpm_paddr

\* the middle one of three mappings has been removed from a ring that
\* starts inside the data area: the last mapping has moved back across the
\* end of the area
C17_MiddleRemoved ==
    /\ cpm.last.op = "remove" /\ cpm.last.ret = OK
    /\ Compact(cpm.was) /\ Len(cpm.was) = 3
    /\ OffsetOf([cpm_paddr |-> cpm.last.bno]) = 1
    /\ \E i \in 1..2 : /\ CpmMap[i].cpm_paddr > cpm.was[i + 1].cpm_paddr
                       /\ OffsetOf(CpmMap[i]) = 1

\* the entries for an oid, by mapping block and place in the block
EntriesFor(oid) ==
    {e \in (1..Len(cpm.blocks)) \X (1..CpmMaxMaps) :
       e[2] <= Len(cpm.blocks[e[1]]) /\ cpm.blocks[e[1]][e[2]].cpm_oid = oid}
FirstEntry(oid) ==
    CHOOSE e \in EntriesFor(oid) :
      \A f \in EntriesFor(oid) : e[1] < f[1] \/ (e[1] = f[1] /\ e[2] <= f[2])

-----------------------------------------------------------------------------
\* calls into the object map, for oids with and without a mapping

OmMaxOid == 3

OmOids == 1..OmMaxOid

\* what apfs_btree_query reports for the oid on the object map
OmapQuery(oid) ==
    Call("apfs_btree_query",
         <<Cur, OMAP, apfs_init_omap_key(oid, nx_xid),
           apfs_alloc_query(Cur, s_omap_root, <<>>)>>)

\* the call returns; a transaction is of no use after a failed write
OmReturn(op, oid, r, block) ==
    /\ InstallEngine(r.m)
    /\ omap' = [pc |-> "called", op |-> op, oid |-> oid,
                query |-> OmapQuery(oid).ret, ret |-> r.ret, block |-> block]
    /\ failed' = (r.ret # OK /\ r.m # Cur)
    /\ nops' = nops + 1
    /\ UNCHANGED <<in_trans, ckpt, expect, query, qlife, csum, cpm, lock>>

\* a new virtual object gets its mapping
OmapNewObject ==
    /\ Budget
    /\ next_oid <= OmMaxOid
    /\ OmReturn("create", next_oid, Call("apfs_create_node", <<Cur, CAT>>), 0)

OmapLookup(oid, write) ==
    /\ Budget
    /\ LET r == Call("apfs_omap_lookup_block", <<Cur, s_omap_root, oid, write>>)
       IN OmReturn("lookup", oid, r, r.block)

OmapDelete(oid) ==
    /\ Budget
    /\ OmReturn("delete", oid, Call("apfs_delete_omap_rec", <<Cur, oid>>), 0)

OmNext ==
    \/ apfs_transaction_start
    \/ OmapNewObject
    \/ \E oid \in OmOids, write \in BOOLEAN : OmapLookup(oid, write)
    \/ \E oid \in OmOids : OmapDelete(oid)

SpecOmap == Init /\ [][OmNext]_vars

\* C19: a missing mandatory mapping is corruption.  When the query of the
\* object map for the oid reports not-found, apfs_omap_lookup_block fails
\* with -EFSCORRUPTED and gives no block number, and apfs_delete_omap_rec
\* fails with -EFSCORRUPTED.
C19_MissingIsCorruption ==
    (omap.pc = "called" /\ omap.query = ENODATA
       /\ omap.op \in {"lookup", "delete"}) =>
      /\ omap.ret = EFSCORRUPTED
      /\ omap.block = 0

\* what the code does when the query reports not-found:
\* apfs_delete_omap_rec turns it into -EFSCORRUPTED, and
\* apfs_omap_lookup_block gives no block number and returns the error of
\* the query as it is
NotFoundInObjectMap ==
    (omap.pc = "called" /\ omap.query = ENODATA) =>
      /\ omap.op = "delete" => omap.ret = EFSCORRUPTED
      /\ omap.op = "lookup" => omap.ret = ENODATA /\ omap.block = 0

\* a mapping that was deleted has been looked up and deleted again
C19_Missing ==
    /\ omap.pc = "called"
    /\ omap.query = ENODATA
    /\ omap.op = "delete"
    /\ omap.ret = EFSCORRUPTED

-----------------------------------------------------------------------------
\* the entry points that take nx_big_sem themselves
\*
\* Each thread runs one entry point at a time, a statement at a time; ok
\* tells whether the statement at hand succeeds.  The places of an entry
\* point are "start" (what it does before the lock), "down", the calls made
\* under the lock, "up" and "fail" (the two releases), "copy_out" and
\* "return".

LkThreads == 2

Threads == 1..LkThreads
EntryPoints == {"apfs_iget", "apfs_ioc_get_pfk", "apfs_ioc_set_dflt_pfk"}
UnderLock == {"lookup", "from_query", "get_key", "update"}

\* an entry point that goes through the catalog without taking the lock
IoctlReadsBare(pc, ok) ==
    CASE pc = "start" -> IF ok THEN "get_key" ELSE "return"
      [] pc = "get_key" -> IF ok THEN "copy_out" ELSE "return"
      [] pc = "copy_out" -> "return"

\* an entry point that returns from its failure exit without the release
IgetFailHoldsLock(pc, ok) ==
    CASE pc = "start" -> IF ok THEN "down" ELSE "return"
      [] pc = "down" -> "lookup"
      [] pc = "lookup" -> IF ok THEN "from_query" ELSE "return"
      [] pc = "from_query" -> IF ok THEN "up" ELSE "return"
      [] pc = "up" -> "return"
      [] pc = "fail" -> "return"

apfs_iget(pc, ok) ==
    CASE pc = "start" -> IF ok THEN "down" ELSE "return"
      [] pc = "down" -> "lookup"
      [] pc = "lookup" -> IF ok THEN "from_query" ELSE "fail"
      [] pc = "from_query" -> IF ok THEN "up" ELSE "fail"
      [] pc = "up" -> "return"
      [] pc = "fail" -> "return"

apfs_ioc_get_pfk(pc, ok) ==
    CASE pc = "start" -> IF ok THEN "down" ELSE "return"
      [] pc = "down" -> "get_key"
      [] pc = "get_key" -> IF ok THEN "up" ELSE "fail"
      [] pc = "up" -> "copy_out"
      [] pc = "copy_out" -> "return"
      [] pc = "fail" -> "return"

apfs_ioc_set_dflt_pfk(pc, ok) ==
    CASE pc = "start" -> IF ok THEN "down" ELSE "return"
      [] pc = "down" -> "update"
      [] pc = "update" -> "up"
      [] pc = "up" -> "return"

After(op, pc, ok) ==
    CASE op = "apfs_iget" -> apfs_iget(pc, ok)
      [] op = "apfs_ioc_get_pfk" -> apfs_ioc_get_pfk(pc, ok)
      [] op = "apfs_ioc_set_dflt_pfk" -> apfs_ioc_set_dflt_pfk(pc, ok)

ForWriting(op) == op = "apfs_ioc_set_dflt_pfk"

NoThread == 0
AtRest == [pc |-> "idle", op |-> "none", downs |-> 0, ups |-> 0,
           bare |-> FALSE, ok |-> TRUE]

LkInit ==
    /\ EngineAtRest /\ blk = InitBlk /\ s_omap_root = 1 /\ s_cat_root = 2
    /\ query = Idle /\ qlife = Idle /\ csum = Idle /\ cpm = Idle /\ omap = Idle
    /\ lock = [pc |-> "run", readers |-> {}, writer |-> NoThread, stray |-> FALSE,
               th |-> [t \in Threads |-> AtRest]]

LkRest == UNCHANGED <<engine, query, qlife, csum, cpm, omap>>

Holds(l, t) == t \in l.readers \/ l.writer = t

\* the thread moves on from its statement
Moved(l, t, ok) ==
    [l EXCEPT !.th[t].pc = After(l.th[t].op, l.th[t].pc, ok),
              !.th[t].ok = l.th[t].ok /\ ok]

LkCall(t, op) ==
    /\ lock.th[t].pc \in {"idle", "return"}
    /\ lock' = [lock EXCEPT !.th[t] = [AtRest EXCEPT !.pc = "start", !.op = op]]
    /\ LkRest

\* the checks and allocations before the lock
LkStart(t, ok) ==
    /\ lock.th[t].pc = "start"
    /\ lock' = Moved(lock, t, ok)
    /\ LkRest

\* down_read waits for the writer, down_write for the writer and the readers
LkDown(t) ==
    /\ lock.th[t].pc = "down"
    /\ lock.writer = NoThread
    /\ ForWriting(lock.th[t].op) => lock.readers = {}
    /\ lock' = [Moved(lock, t, TRUE) EXCEPT
                  !.readers = IF ForWriting(lock.th[t].op) THEN @ ELSE @ \cup {t},
                  !.writer = IF ForWriting(lock.th[t].op) THEN t ELSE @,
                  !.th[t].downs = @ + 1]
    /\ LkRest

\* a traversal of the catalog or the update of s_dflt_pfk
LkWork(t, ok) ==
    /\ lock.th[t].pc \in UnderLock
    /\ lock' = [Moved(lock, t, ok) EXCEPT
                  !.th[t].bare = @ \/ ~ Holds(lock, t)]
    /\ LkRest

\* up_read and up_write; a release by a thread that holds nothing is a stray
LkUp(t) ==
    /\ lock.th[t].pc \in {"up", "fail"}
    /\ lock' = [Moved(lock, t, TRUE) EXCEPT
                  !.readers = @ \ {t},
                  !.writer = IF @ = t THEN NoThread ELSE @,
                  !.stray = @ \/ ~ Holds(lock, t),
                  !.th[t].ups = @ + 1]
    /\ LkRest

\* the copy to the user after the release
LkCopyOut(t, ok) ==
    /\ lock.th[t].pc = "copy_out"
    /\ lock' = Moved(lock, t, ok)
    /\ LkRest

LkNext ==
    \E t \in Threads :
      \/ \E op \in EntryPoints : LkCall(t, op)
      \/ \E ok \in BOOLEAN : LkStart(t, ok)
      \/ LkDown(t)
      \/ \E ok \in BOOLEAN : LkWork(t, ok)
      \/ LkUp(t)
      \/ \E ok \in BOOLEAN : LkCopyOut(t, ok)

SpecLock == LkInit /\ [][LkNext]_vars

\* C20: scoped lock acquisition.  An entry point goes through the catalog
\* or changes s_dflt_pfk only while it holds the lock it took, it has
\* released the lock exactly as often as it took it when it returns, at
\* most once, on the success and the failure exits alike, it never
\* releases what it does not hold, and a writer holds the lock alone.
C20_Scoped ==
    /\ ~ lock.stray
    /\ lock.writer # NoThread => lock.readers = {}
    /\ \A t \in Threads :
         LET th == lock.th[t] IN
         /\ ~ th.bare
         /\ th.ups <= th.downs /\ th.downs <= 1
         /\ th.pc \in UnderLock => Holds(lock, t) /\ th.downs = 1 /\ th.ups = 0
         /\ th.pc \in {"idle", "return", "copy_out", "start", "down"} =>
              ~ Holds(lock, t) /\ th.ups = th.downs
         /\ (th.pc = "return" /\ th.downs = 1) => th.ups = 1

\* an inode read has failed under the lock and has returned through its
\* failure exit while another thread, a reader too, still holds the lock
C20_FailedAndReleased ==
    \E t, u \in Threads :
      /\ lock.th[t].pc = "return" /\ lock.th[t].op = "apfs_iget"
      /\ ~ lock.th[t].ok /\ lock.th[t].downs = 1 /\ lock.th[t].ups = 1
      /\ u # t /\ u \in lock.readers

\* ------------------------------------------------------------------------
\* the callers of the transaction manager
\*
\* Each caller is the table of its places: "check" (what it does before the
\* transaction), "tx_start", the calls made inside the transaction,
\* "commit", "abort" and "return"; ok tells whether the statement at hand
\* succeeds.  apfs_write_begin leaves through "begun" with its transaction
\* open, and apfs_write_end is entered from there.

apfs_write_begin(pc, ok) ==
    CASE pc = "check" -> IF ok THEN "tx_start" ELSE "return"
      [] pc = "tx_start" -> IF ok THEN "create_dstream_rec" ELSE "return"
      [] pc = "create_dstream_rec" -> IF ok THEN "create_crypto_rec" ELSE "abort"
      [] pc = "create_crypto_rec" -> IF ok THEN "grab_page" ELSE "abort"
      [] pc = "grab_page" -> IF ok THEN "get_block" ELSE "abort"
      [] pc = "get_block" -> IF ok THEN "block_write_begin" ELSE "abort"
      [] pc = "block_write_begin" -> IF ok THEN "begun" ELSE "abort"
      [] pc = "abort" -> "return"

\* a write that returns the error of a failed commit without the abort
WriteEndNoAbort(pc, ok) ==
    CASE pc = "generic_write_end" -> IF ok THEN "commit" ELSE "abort"
      [] pc = "commit" -> "return"
      [] pc = "abort" -> "return"

apfs_write_end(pc, ok) ==
    CASE pc = "generic_write_end" -> IF ok THEN "commit" ELSE "abort"
      [] pc = "commit" -> IF ok THEN "return" ELSE "abort"
      [] pc = "abort" -> "return"

apfs_page_mkwrite(pc, ok) ==
    CASE pc = "check" -> "tx_start"
      [] pc = "tx_start" -> IF ok THEN "lock_page" ELSE "return"
      [] pc = "lock_page" -> IF ok THEN "block_page_mkwrite" ELSE "abort"
      [] pc = "block_page_mkwrite" -> IF ok THEN "commit" ELSE "abort"
      [] pc = "commit" -> IF ok THEN "return" ELSE "abort"
      [] pc = "abort" -> "return"

apfs_evict_inode(pc, ok) ==
    CASE pc = "check" -> IF ok THEN "tx_start" ELSE "return"
      [] pc = "tx_start" -> IF ok THEN "delete_inode" ELSE "return"
      [] pc = "delete_inode" -> IF ok THEN "delete_orphan_link" ELSE "abort"
      [] pc = "delete_orphan_link" -> IF ok THEN "commit" ELSE "abort"
      [] pc = "commit" -> IF ok THEN "return" ELSE "abort"
      [] pc = "abort" -> "return"

apfs_setattr(pc, ok) ==
    CASE pc = "check" -> IF ok THEN "tx_start" ELSE "return"
      [] pc = "tx_start" -> IF ok THEN "setsize" ELSE "return"
      [] pc = "setsize" -> IF ok THEN "commit" ELSE "abort"
      [] pc = "commit" -> IF ok THEN "return" ELSE "abort"
      [] pc = "abort" -> "return"

apfs_update_time(pc, ok) ==
    CASE pc = "check" -> "tx_start"
      [] pc = "tx_start" -> IF ok THEN "generic_update_time" ELSE "return"
      [] pc = "generic_update_time" -> IF ok THEN "commit" ELSE "abort"
      [] pc = "commit" -> IF ok THEN "return" ELSE "abort"
      [] pc = "abort" -> "return"

apfs_ioc_set_dir_class(pc, ok) ==
    CASE pc = "check" -> IF ok THEN "tx_start" ELSE "return"
      [] pc = "tx_start" -> IF ok THEN "commit" ELSE "return"
      [] pc = "commit" -> IF ok THEN "return" ELSE "abort"
      [] pc = "abort" -> "return"

apfs_ioc_set_pfk(pc, ok) ==
    CASE pc = "check" -> IF ok THEN "tx_start" ELSE "return"
      [] pc = "tx_start" -> IF ok THEN "crypto_set_key" ELSE "return"
      [] pc = "crypto_set_key" -> IF ok THEN "commit" ELSE "abort"
      [] pc = "commit" -> IF ok THEN "return" ELSE "abort"
      [] pc = "abort" -> "return"

apfs_do_ioc_setflags(pc, ok) ==
    CASE pc = "check" -> IF ok THEN "tx_start" ELSE "return"
      [] pc = "tx_start" -> IF ok THEN "commit" ELSE "return"
      [] pc = "commit" -> IF ok THEN "return" ELSE "abort"
      [] pc = "abort" -> "return"

apfs_fileattr_set(pc, ok) ==
    CASE pc = "check" -> IF ok THEN "tx_start" ELSE "return"
      [] pc = "tx_start" -> IF ok THEN "commit" ELSE "return"
      [] pc = "commit" -> IF ok THEN "return" ELSE "abort"
      [] pc = "abort" -> "return"

TxCallers == {"apfs_write_begin", "apfs_page_mkwrite", "apfs_evict_inode",
              "apfs_setattr", "apfs_update_time", "apfs_ioc_set_dir_class",
              "apfs_ioc_set_pfk", "apfs_do_ioc_setflags", "apfs_fileattr_set"}

InTransaction == {"create_dstream_rec", "create_crypto_rec", "grab_page",
                  "get_block", "block_write_begin", "generic_write_end",
                  "lock_page", "block_page_mkwrite", "delete_inode",
                  "delete_orphan_link", "setsize", "generic_update_time",
                  "crypto_set_key"}

TxAfter(op, pc, ok) ==
    CASE op = "apfs_write_begin" -> apfs_write_begin(pc, ok)
      [] op = "apfs_write_end" -> apfs_write_end(pc, ok)
      [] op = "apfs_page_mkwrite" -> apfs_page_mkwrite(pc, ok)
      [] op = "apfs_evict_inode" -> apfs_evict_inode(pc, ok)
      [] op = "apfs_setattr" -> apfs_setattr(pc, ok)
      [] op = "apfs_update_time" -> apfs_update_time(pc, ok)
      [] op = "apfs_ioc_set_dir_class" -> apfs_ioc_set_dir_class(pc, ok)
      [] op = "apfs_ioc_set_pfk" -> apfs_ioc_set_pfk(pc, ok)
      [] op = "apfs_do_ioc_setflags" -> apfs_do_ioc_setflags(pc, ok)
      [] op = "apfs_fileattr_set" -> apfs_fileattr_set(pc, ok)

\* what a thread has done with the transaction manager in its call: the
\* starts that succeeded and the ones that failed, the commits that
\* succeeded, the aborts, whether a statement has failed after the start,
\* whether that statement was the commit, and whether it has aborted with
\* no transaction of its own open
NoTx == [starts |-> 0, refused |-> 0, commits |-> 0, aborts |-> 0,
         failed |-> FALSE, uncommitted |-> FALSE, misplaced |-> FALSE]

TxInit ==
    /\ EngineAtRest /\ blk = InitBlk /\ s_omap_root = 1 /\ s_cat_root = 2
    /\ query = Idle /\ qlife = Idle /\ csum = Idle /\ cpm = Idle /\ omap = Idle
    /\ lock = [pc |-> "run", readers |-> {}, writer |-> NoThread, stray |-> FALSE,
               th |-> [t \in Threads |-> AtRest],
               open |-> {}, tx |-> [t \in Threads |-> NoTx]]

TxMoved(l, t, ok) ==
    [l EXCEPT !.th[t].pc = TxAfter(l.th[t].op, l.th[t].pc, ok),
              !.th[t].ok = l.th[t].ok /\ ok]

TxCall(t, op) ==
    /\ lock.th[t].pc \in {"idle", "return"}
    /\ lock' = [lock EXCEPT !.th[t] = [AtRest EXCEPT !.pc = "check", !.op = op],
                            !.tx[t] = NoTx]
    /\ LkRest

\* the checks before the transaction
TxCheck(t, ok) ==
    /\ lock.th[t].pc = "check"
    /\ lock' = TxMoved(lock, t, ok)
    /\ LkRest

\* apfs_transaction_start takes nx_big_sem for writing, and gives it back
\* at once when it fails
TxStart(t, ok) ==
    /\ lock.th[t].pc = "tx_start"
    /\ lock.writer = NoThread /\ lock.readers = {}
    /\ lock' = [TxMoved(lock, t, ok) EXCEPT
                  !.writer = IF ok THEN t ELSE @,
                  !.open = IF ok THEN @ \cup {t} ELSE @,
                  !.th[t].downs = IF ok THEN @ + 1 ELSE @,
                  !.tx[t].starts = IF ok THEN @ + 1 ELSE @,
                  !.tx[t].refused = IF ok THEN @ ELSE @ + 1]
    /\ LkRest

\* a statement between the start and the commit
TxWork(t, ok) ==
    /\ lock.th[t].pc \in InTransaction
    /\ lock' = [TxMoved(lock, t, ok) EXCEPT
                  !.th[t].bare = @ \/ ~ Holds(lock, t),
                  !.tx[t].failed = @ \/ ~ ok]
    /\ LkRest

\* the write goes on in apfs_write_end, with the transaction of
\* apfs_write_begin
TxWriteEnd(t) ==
    /\ lock.th[t].pc = "begun"
    /\ lock' = [lock EXCEPT !.th[t].pc = "generic_write_end",
                            !.th[t].op = "apfs_write_end"]
    /\ LkRest

\* apfs_transaction_commit ends the transaction and releases nx_big_sem
\* when it succeeds, and leaves both to the abort when it fails
TxCommit(t, ok) ==
    /\ lock.th[t].pc = "commit"
    /\ lock' = [TxMoved(lock, t, ok) EXCEPT
                  !.writer = IF ok /\ @ = t THEN NoThread ELSE @,
                  !.open = IF ok THEN @ \ {t} ELSE @,
                  !.stray = @ \/ (ok /\ ~ Holds(lock, t)),
                  !.th[t].ups = IF ok THEN @ + 1 ELSE @,
                  !.tx[t].commits = IF ok THEN @ + 1 ELSE @,
                  !.tx[t].failed = @ \/ ~ ok,
                  !.tx[t].uncommitted = @ \/ ~ ok]
    /\ LkRest

\* apfs_transaction_abort ends the transaction and releases nx_big_sem
TxAbort(t) ==
    /\ lock.th[t].pc = "abort"
    /\ lock' = [TxMoved(lock, t, TRUE) EXCEPT
                  !.writer = IF @ = t THEN NoThread ELSE @,
                  !.open = @ \ {t},
                  !.stray = @ \/ ~ Holds(lock, t),
                  !.th[t].ups = @ + 1,
                  !.tx[t].aborts = @ + 1,
                  !.tx[t].misplaced = @ \/ t \notin lock.open]
    /\ LkRest

TxStep(t) ==
    \/ \E ok \in BOOLEAN : TxCheck(t, ok)
    \/ \E ok \in BOOLEAN : TxStart(t, ok)
    \/ \E ok \in BOOLEAN : TxWork(t, ok)
    \/ TxWriteEnd(t)
    \/ \E ok \in BOOLEAN : TxCommit(t, ok)
    \/ TxAbort(t)

TxNext ==
    \E t \in Threads :
      \/ \E op \in TxCallers : TxCall(t, op)
      \/ TxStep(t)
      \/ \E op \in EntryPoints : LkCall(t, op)
      \/ \E ok \in BOOLEAN : LkStart(t, ok)
      \/ LkDown(t)
      \/ \E ok \in BOOLEAN : LkWork(t, ok)
      \/ LkUp(t)
      \/ \E ok \in BOOLEAN : LkCopyOut(t, ok)

SpecTrans == TxInit /\ [][TxNext]_vars

\* a caller that has entered the transaction manager goes on
SpecTransLive == SpecTrans /\ \A t \in Threads : WF_vars(TxStep(t))

Traversals == {"lookup", "from_query", "get_key"}

\* C21: writer serialization.  At most one transaction is in flight, the
\* thread it belongs to holds nx_big_sem for writing, no thread is inside
\* the inode lookup of apfs_iget or the record read of apfs_ioc_get_pfk
\* while a transaction is open, the window between apfs_write_begin and
\* apfs_write_end included, and readers overlap with readers only.
C21_Serialized ==
    /\ Cardinality(lock.open) <= 1
    /\ \A t \in lock.open : lock.writer = t
    /\ lock.open # {} => \A u \in Threads : lock.th[u].pc \notin Traversals
    /\ lock.writer # NoThread => lock.readers = {}
    /\ \A u \in Threads : lock.th[u].pc \in Traversals => u \in lock.readers
    /\ \A u \in Threads : ~ lock.th[u].bare

\* a write is between apfs_write_begin and apfs_write_end, its transaction
\* open, while another thread waits in apfs_iget for the lock
C21_WindowOpen ==
    \E t, u \in Threads :
      /\ lock.th[t].pc = "begun" /\ t \in lock.open
      /\ lock.th[u].op = "apfs_iget" /\ lock.th[u].pc = "down"

\* C22: transaction pairing in callers.  A call starts at most one
\* transaction; what it has started it ends at most once, by a commit
\* that succeeds or by an abort and never by both; it aborts only its own
\* open transaction, so never after a commit that succeeded and never
\* when the start failed; when it returns, the transaction it started has
\* ended, and a failure after the start has been followed by the abort.
\* A transaction that is open is ended in the end.
C22_PairedState ==
    /\ ~ lock.stray
    /\ \A t \in Threads :
         LET th == lock.th[t]
             tx == lock.tx[t] IN
         /\ tx.starts + tx.refused <= 1
         /\ tx.commits + tx.aborts <= tx.starts
         /\ ~ tx.misplaced
         /\ tx.refused = 1 => tx.aborts = 0 /\ tx.commits = 0
         /\ t \in lock.open <=> tx.starts = 1 /\ tx.commits + tx.aborts = 0
         /\ th.pc = "return" => t \notin lock.open
         /\ (th.pc = "return" /\ tx.starts = 1) => tx.commits + tx.aborts = 1
         /\ (th.pc = "return" /\ tx.failed) => tx.aborts = 1 /\ tx.commits = 0

C22_Paired ==
    /\ []C22_PairedState
    /\ \A t \in Threads : (t \in lock.open) ~> (t \notin lock.open)

\* a commit has failed, the abort has followed, and the caller has returned
C22_CommitFailedAborted ==
    \E t \in Threads :
      /\ lock.th[t].pc = "return" /\ lock.th[t].op = "apfs_write_end"
      /\ lock.tx[t].starts = 1 /\ lock.tx[t].uncommitted
      /\ lock.tx[t].aborts = 1 /\ lock.tx[t].commits = 0

\* ------------------------------------------------------------------------
\* the query when kmalloc fails
\*
\* apfs_alloc_query returns NULL when kmalloc fails.  Both loops store what
\* it returns in *query, drop the reference of the read and go on: the next
\* thing apfs_btree_query does is (*query)->depth at next_node, and
\* apfs_query_set_before_first does the same in its loop condition.  What a
\* dereference of NULL does is not defined: the kernel stops the thread, or
\* the call goes on with whatever it reads and returns anything.

ENOMEM == "ENOMEM"
NoQuery == <<>>

NullDereference == {"oops"} \cup QlRets \cup {ENOMEM}

\* the descent with a kmalloc that fails: the child is read, no frame is
\* allocated on it, the reference of the read is dropped, and *query is NULL
QlNoMemory(n, outcome) ==
    /\ qlife.pc = "query"
    /\ Len(qlife.own) <= QlMaxDepth
    /\ LET read == [qlife EXCEPT !.refs = apfs_node_get(@, n)]
       IN qlife' = [read EXCEPT !.refs = apfs_node_put(@, n),
                                !.pc = "null",
                                !.ret = outcome,
                                !.own = NoQuery,
                                !.lost = @ \o qlife.own]
    /\ QlRest

\* the thread is gone, or its caller has what the call returned
QlGone ==
    /\ qlife.pc = "null"
    /\ qlife' = [qlife EXCEPT !.pc = "call", !.op = "none",
                              !.lost = @ \o qlife.caller, !.caller = <<>>]
    /\ QlRest

QmNext ==
    \/ QlNext
    \/ \E n \in QlNodes \ {QlRootNode}, outcome \in NullDereference :
         QlNoMemory(n, outcome)
    \/ QlGone

SpecQlifeMem == QlInit /\ [][QmNext]_vars

\* C23: allocation failure.  When apfs_alloc_query returns NULL during the
\* descent of apfs_btree_query or of apfs_query_set_before_first, the call
\* returns -ENOMEM, the frames built so far are still reachable through
\* *query, and no null frame is dereferenced (the place "null" is that of
\* a call that has dereferenced one, with "oops" for the thread that was
\* stopped there).
C23_OutOfMemory ==
    qlife.pc = "null" =>
      /\ qlife.ret = ENOMEM
      /\ qlife.own # NoQuery

\* the allocation has failed below the root: *query is NULL, the frames
\* built before are out of reach and still hold their nodes
C23_FramesLost ==
    /\ qlife.pc = "null"
    /\ qlife.calls = 1
    /\ qlife.ret = "oops"
    /\ qlife.own = NoQuery
    /\ Len(qlife.lost) > 1
    /\ \A i \in 1..Len(qlife.lost) : qlife.refs[qlife.lost[i]] > SbRefs[qlife.lost[i]]

\* ------------------------------------------------------------------------
\* joining twice

\* the query of the object map for a virtual object
OmapQueryOf(m, oid) ==
    Call("apfs_btree_query",
         <<m, OMAP, apfs_init_omap_key(oid, m.nx_xid),
           apfs_alloc_query(m, m.s_omap_root, <<>>)>>)

\* the queries a caller can hold in this state: of the catalog for each
\* key, of the object map for each object
HeldQueries ==
    {[tree |-> CAT, r |-> CatQuery(Cur, k)] : k \in Keys}
    \cup {[tree |-> OMAP, r |-> OmapQueryOf(Cur, oid)] :
            oid \in 1..(CatRootOid + 2 * MaxOps)}

Found(h) == h.r.ret \in {OK, ENODATA}

Join(m, tree, q) == Call("apfs_query_join_transaction", <<m, tree, q>>)

\* C24: join is idempotent.  apfs_query_join_transaction on a query whose
\* node is in the transaction already returns 0 and changes nothing, in
\* the blocks, the transaction or the query; and after a join that
\* succeeded a second join of the same query does just that.
C24_JoinIdempotent ==
    (in_trans /\ ~ failed) =>
      \A h \in HeldQueries :
        Found(h) =>
          LET once == Join(Cur, h.tree, h.r.q)
              twice == Join(once.m, h.tree, once.q)
          IN /\ Last(h.r.q).node \in trans =>
                  once = [m |-> Cur, q |-> h.r.q, ret |-> OK]
             /\ once.ret = OK =>
                  /\ Last(once.q).node \in once.m.trans
                  /\ twice = once

\* a query holds a node below the root that an earlier operation has joined
\* to the transaction, and another query holds one that a join has to copy
C24_JoinedAndNot ==
    /\ in_trans /\ ~ failed
    /\ \E h \in HeldQueries :
         /\ Found(h) /\ Len(h.r.q) > 1
         /\ Last(h.r.q).node \in trans
    /\ \E h \in HeldQueries :
         /\ Found(h) /\ Len(h.r.q) > 1
         /\ Last(h.r.q).node \notin trans
         /\ Join(Cur, h.tree, h.r.q).ret = OK
         /\ Join(Cur, h.tree, h.r.q).m # Cur

\* ------------------------------------------------------------------------
\* the position before the first record

\* the chain goes from the root down the first record of every node to a
\* leaf, a frame per level, the ancestors at index 0 and the leaf at -1
BeforeFirstPosition(q) ==
    LET c == q.chain IN
    /\ c[1].node = QRoot
    /\ apfs_node_is_leaf(Cur, Last(c).node)
    /\ Last(c).index = -1
    /\ \A i \in 1..Len(c) : c[i].depth = i - 1
    /\ \A i \in 1..(Len(c) - 1) :
         /\ ~ apfs_node_is_leaf(Cur, c[i].node)
         /\ c[i].index = 0
         /\ c[i + 1].node = ChildBno(Cur, q.tree, blk[c[i].node].recs[1].v)

\* C25: before-first positioning.  When the node search of the root says
\* that the key comes before every record, apfs_btree_query walks to the
\* first leaf and returns -ENODATA there, unless the walk runs into a
\* child it cannot read or into the depth limit: *query is the leftmost
\* leaf with index -1, every ancestor frame has index 0, and the chain has
\* one frame per level from the root down to that leaf.
C25_BeforeFirst ==
    [][/\ (query.pc = "next_node" /\ query'.pc = "before_first") =>
            /\ Len(query.chain) = 1
            /\ TipSearch.ret = ENODATA /\ TipSearch.index = -1
            /\ query'.chain = SetIndex(query.chain, -1)
       /\ (query.pc = "before_first" /\ query'.pc = "done") =>
            /\ query'.ret \in {ENODATA, EFSCORRUPTED, EFSBADCRC}
            /\ query'.ret = ENODATA => BeforeFirstPosition(query')
            /\ query'.ret = EFSCORRUPTED => DepthExceeded(Tip)]_vars

\* the call has returned -ENODATA in the first leaf below the root, before
\* its first record, without a search of the leaf, and the key of the query
\* does come before that record
C25_BeforeLeaf ==
    /\ query.pc = "done"
    /\ query.ret = ENODATA
    /\ Len(query.chain) = 2
    /\ Tip.depth \notin query.searched
    /\ BeforeFirstPosition(query)
    /\ Records(Cur, Tip.node) > 0
    /\ KeyCmp(query.key, blk[Tip.node].recs[1].k) < 0

\* ------------------------------------------------------------------------
\* the step back to the parent

\* C26: backtracking step.  When the node search of a frame says -EAGAIN,
\* apfs_btree_query takes that one frame off the chain when it has a
\* parent, leaves every ancestor frame as it was, and goes on with the node
\* search of the parent, from the index the parent has; at a frame with no
\* parent it returns -ENODATA and the chain stays whole.
C26_Backtrack ==
    [][(query.pc = "next_node" /\ ~ DepthExceeded(Tip) /\ TipSearch.ret = EAGAIN) =>
         IF Len(query.chain) > 1
         THEN /\ query'.pc = "next_node"
              /\ query'.chain = Front(query.chain)
              /\ query'.flags = Front(query.flags)
              /\ Len(query'.chain) = Len(query.chain) - 1
         ELSE /\ query'.pc = "done"
              /\ query'.ret = ENODATA
              /\ query'.chain = query.chain]_vars

\* a call has stepped back to the root, and the root has nothing more
C26_RootExhausted ==
    /\ query.pc = "done"
    /\ query.ret = ENODATA
    /\ query.ups > 0
    /\ Len(query.chain) = 1

\* ------------------------------------------------------------------------
\* the removal of the only record of a node

NodeCount(m, tree) == m.blk[RootOf(m, tree)].info.bt_node_count

NoEmptyNode(m, tree) ==
    \A n \in NodesOf(m, tree) :
      ~ apfs_node_is_root(m, n) => Records(m, n) > 0

\* what the removal of the record of key k gives, r, when the record is the
\* only one of its node
OnlyRecordRemoved(k, r) ==
    LET q == CatQuery(Cur, k).q
        node == Last(q).node
        root == RootOf(r.m, CAT)
    IN (Records(Cur, node) = 1 /\ r.ret = OK) =>
         /\ NoEmptyNode(r.m, CAT)
         /\ IF Len(q) > 1
            THEN LET parent == q[Len(q) - 1].node
                     after == r.q[Len(q) - 1].node
                 IN /\ node \notin NodesOf(r.m, CAT)
                    /\ node \in Range(r.m.fq)
                    /\ NodeCount(r.m, CAT) < NodeCount(Cur, CAT)
                    /\ NodeCount(r.m, CAT) = Cardinality(NodesOf(r.m, CAT))
                    /\ Records(Cur, parent) > 1 =>
                         /\ NodeCount(r.m, CAT) = NodeCount(Cur, CAT) - 1
                         /\ after \in NodesOf(r.m, CAT)
                         /\ Records(r.m, after) = Records(Cur, parent) - 1
                    /\ Records(Cur, parent) = 1 =>
                         after \notin NodesOf(r.m, CAT) \/ after = root
            ELSE TRUE
         /\ Records(r.m, root) = 0 =>
              /\ apfs_node_is_leaf(r.m, root)
              /\ r.m.blk[root].level = 0
              /\ NodesOf(r.m, CAT) = {root}
         /\ Len(q) = 1 => Records(r.m, root) = 0

\* C27: removing a node's only record.  apfs_btree_remove on a node with
\* one record deletes the node when the query has a parent: the node
\* leaves the tree, the parent loses the record that led to it, and the
\* node count of the root goes down by one (and by one more for every
\* ancestor that goes the same way); on the root it makes the root a leaf of
\* level 0 with no records.  No node but the root is left without records
\* after a remove that succeeded.
C27_OnlyRecord ==
    /\ ~ failed => NoEmptyNode(Cur, CAT) /\ NoEmptyNode(Cur, OMAP)
    /\ (in_trans /\ ~ failed /\ nops < MaxOps) =>
         \A k \in Keys :
           \A r \in Call("Outcomes", <<"DoRemove", OK, Cur, k, 0>>) :
             OnlyRecordRemoved(k, r)

\* a leaf of the catalog below the root has joined the transaction and has
\* been freed with its only record still in it, while the catalog goes on
\* with other records
C27_LeafGone ==
    /\ in_trans /\ ~ failed
    /\ Records(Cur, RootOf(Cur, CAT)) > 0
    /\ \E b \in Range(fq) :
         /\ blk[b].tree = CAT /\ blk[b].leaf /\ ~ blk[b].root
         /\ blk[b].xid = nx_xid
         /\ Records(Cur, b) = 1
         /\ b \notin NodesOf(Cur, CAT)

\* ------------------------------------------------------------------------
\* the root bookkeeping and the chains it gets

\* the assertions of apfs_btree_change_rec_count and
\* apfs_btree_change_node_count on the topmost ancestor
RootLabels == {"rec_count_root", "node_count_root"}

\* what a caller has after a first operation that succeeded: the state and
\* the query it still holds
FirstOperations ==
    {r \in UNION {Call("Outcomes", <<"DoInsert", ENODATA, Cur, k, v>>)
                  \cup Call("Outcomes", <<"DoReplace", OK, Cur, k, v>>) :
                    k \in Keys, v \in Vals} :
       r.ret = OK}

\* a second operation on the query the first one has left
InsertNext(r, k, v) == Call("apfs_btree_insert", <<r.m, CAT, r.q, CatKey(k), v>>)
RemoveNext(r) == Call("apfs_btree_remove", <<r.m, CAT, r.q>>)
ReplaceNext(r, v) == Call("apfs_btree_replace", <<r.m, CAT, r.q, NoKey, v>>)

Rooted(r2) == r2.m.asserts \cap RootLabels = {}

LongestCovers(tree) ==
    \A i \in 1..Len(Leaves(tree)) :
      /\ KeyLen(Leaves(tree)[i].k) <= RootInfo(tree).bt_longest_key
      /\ ValLen(tree, TRUE, Leaves(tree)[i].v) <= RootInfo(tree).bt_longest_val

C29_LongestCovers == ~ failed => \A tree \in {CAT, OMAP} : LongestCovers(tree)

\* a step of the operations on the records, not the end of a transaction
RecordStep == in_trans /\ in_trans' /\ ~ failed'

\* C29: across the insert, replace and remove operations the longest key
\* and the longest value in the root of a tree never decrease, and each is
\* at least the length of the key, of the value, of every record in the
\* leaves of the tree.
C29_Longest ==
    /\ []C29_LongestCovers
    /\ [][RecordStep =>
            \A tree \in {CAT, OMAP} :
              /\ RootInfo(tree)'.bt_longest_key >= RootInfo(tree).bt_longest_key
              /\ RootInfo(tree)'.bt_longest_val >= RootInfo(tree).bt_longest_val]_vars

\* the root remembers a value longer than any the catalog still holds
C29_LongerThanAll ==
    /\ in_trans /\ ~ failed
    /\ Len(Leaves(CAT)) > 0
    /\ RootInfo(CAT).bt_longest_val = MaxVal
    /\ RootInfo(CAT).bt_longest_key = 1
    /\ \A i \in 1..Len(Leaves(CAT)) : ValLen(CAT, TRUE, Leaves(CAT)[i].v) < MaxVal

\* ------------------------------------------------------------------------
\* the loop "no space, split, again" of insert and replace, a turn at a time

RtRest == UNCHANGED <<qlife, csum, cpm, lock, omap>>

\* a caller's query has come back as it wants and it calls the operation
RetryCall(op, k, v, ub) ==
    /\ query.pc = "idle"
    /\ Budget
    /\ \E r \in Call("RetryBegin", <<Cur, op, k, v, ub>>) :
         /\ InstallEngine(r.m)
         /\ query' = r.query
    /\ UNCHANGED <<in_trans, nops, failed, ckpt, expect>>
    /\ RtRest

\* the next statement of the loop has run
RtTake ==
    /\ query.todo # <<>>
    /\ LET s == Head(query.todo)
       IN /\ InstallEngine(s.m)
          /\ query' = [query EXCEPT !.pc = s.at, !.q = s.q, !.ret = s.ret, !.how = s.how,
                                    !.splits = IF s.how = "split" /\ s.at = "again"
                                               THEN @ + 1 ELSE @,
                                    !.todo = Tail(@)]
    /\ UNCHANGED <<in_trans, nops, failed, ckpt, expect>>
    /\ RtRest

\* one turn from the label again
RetryTurn == query.pc = "again" /\ RtTake

\* the branch of -ENOSPC
RetrySplit == query.pc = "nospace" /\ RtTake

\* the operation returns to its caller
RetryReturn ==
    /\ query.pc = "done"
    /\ query' = Idle
    /\ failed' = (query.ret # OK)
    /\ nops' = nops + 1
    /\ expect' = IF query.ret = OK THEN [expect EXCEPT ![query.k] = query.v] ELSE expect
    /\ UNCHANGED <<blk, trans, fq, nx_xid, next_oid, s_omap_root, s_cat_root,
                   cows, unjoined, asserts, in_trans, ckpt>>
    /\ RtRest

RetryStep == RetryTurn \/ RetrySplit \/ RetryReturn

RtNext ==
    \/ query.pc = "idle" /\ apfs_transaction_start
    \/ query.pc = "idle" /\ apfs_transaction_commit
    \/ query.pc = "idle" /\ apfs_transaction_abort
    \/ \E k \in Keys : query.pc = "idle" /\ CatRemove(k)
    \/ \E op \in RetryOps, k \in Keys, v \in Vals, ub \in 0..MaxKey : RetryCall(op, k, v, ub)
    \/ RetryStep

SpecRetry == Init /\ [][RtNext]_vars

\* a call that has started goes on: nothing but the loop itself keeps it
\* in the loop
SpecRetryLive == SpecRetry /\ WF_vars(RetryStep)

\* the loop is where it is for the reason the code gives, and what it
\* returns is what the operation as a whole returns
C30_LoopState ==
    query.pc # "idle" =>
      /\ query.splits <= MaxSplits
      /\ query.pc # "done" => query.todo # <<>>
      /\ query.pc = "nospace" => query.ret = ENOSPC
      /\ (query.pc = "again" /\ query.splits > 0) => query.ret = OK
      /\ query.pc = "done" =>
           /\ query.ret = query.whole.ret
           /\ blk = query.whole.m.blk
           /\ asserts = query.whole.m.asserts

\* C30: the loop of apfs_btree_insert and apfs_btree_replace ends after
\* finitely many splits; it is entered again only after the node had no
\* space and the split succeeded, and every other error is returned at
\* once.
C30_Terminates ==
    /\ []C30_LoopState
    /\ [][(query.pc # "idle" /\ query'.pc = "again") =>
            /\ query.pc = "nospace"
            /\ query'.splits = query.splits + 1
            /\ Len(blk'[Last(query'.q).node].recs) < Len(blk[Last(query.q).node].recs)]_vars
    /\ (query.pc = "again") ~> (query.pc = "done")
    /\ (query.pc = "nospace") ~> (query.pc = "done")

\* an insert that has split once, has found no room again in a node of one
\* record and has ended in apfs_create_single_rec_node
C30_SplitThenSingle ==
    /\ query.pc = "done"
    /\ query.op = "apfs_btree_insert"
    /\ query.splits = 1
    /\ query.how = "single"
    /\ query.ret = query.whole.ret
\* ------------------------------------------------------------------------
\* the copy of a node and the record of its parent

\* a query that has found its place below the root, in a node that is not
\* yet part of the transaction
Unjoined(h) ==
    /\ Found(h)
    /\ Len(h.r.q) > 1
    /\ Last(h.r.q).node \notin trans

Tagged(q, flags, key, base) ==
    [i \in 1..Len(q) |-> [fr |-> q[i], flags |-> flags, key |-> key, id |-> base + i]]

Untagged(tq) == [i \in 1..Len(tq) |-> tq[i].fr]

\* apfs_free_query: the allocations a chain gives back, the last frame first
Freed(tq) == [i \in 1..Len(tq) |-> tq[Len(tq) + 1 - i].id]

CallersFlags == {"APFS_QUERY_CAT", "APFS_QUERY_MULTIPLE"}
RefreshFlags == {"APFS_QUERY_CAT", "APFS_QUERY_EXACT"}
CallersKey(key) == [of |-> "caller", says |-> key]
LocalKey(key) == [of |-> "new_key", says |-> key]

\* the ancestors of the new query take the flags and the key of the old one
RefreshSplice(new, leaf) ==
    [i \in 1..(Len(new) - 1) |-> [new[i] EXCEPT !.flags = leaf.flags, !.key = leaf.key]]

\* a variant that frees the new query with its ancestors
RefreshFreeAll(old, new) == Freed(Front(old)) \o Freed(new)

\* the old ancestors are freed, and the new leaf frame without its parent
RefreshFrees(old, new) == Freed(Front(old)) \o Freed(<<Last(new)>>)

\* apfs_query_refresh on a chain of tagged frames: the chain it leaves, the
\* allocations it has freed, in order, and what it returns
QueryRefresh(m, old) ==
    LET leaf == Last(old)
        q == Untagged(old)
        same == [m |-> m, q |-> old, freed |-> <<>>, ret |-> EFSCORRUPTED]
    IN IF "APFS_QUERY_CAT" \notin leaf.flags THEN same
       ELSE IF ~ apfs_node_is_leaf(m, leaf.fr.node) THEN same
       ELSE
         LET stale == leaf.fr.index < 0 \/ leaf.fr.index >= Records(m, leaf.fr.node)
             m1 == IF stale THEN [m EXCEPT !.ubused = TRUE] ELSE m
         IN IF stale /\ m.ub = 0 THEN [same EXCEPT !.m = m1]
            ELSE
              LET new_key == IF stale THEN CatKey(m.ub) ELSE RecAt(m, q).k
                  r == Call("apfs_btree_query", <<m, CAT, new_key,
                                        apfs_alloc_query(m, m.s_cat_root, <<>>)>>)
                  new == Tagged(r.q, RefreshFlags, LocalKey(new_key), Len(old))
              IN IF r.ret # OK
                 THEN [m |-> m1, q |-> old, freed |-> Freed(new), ret |-> r.ret]
                 ELSE [m |-> m1, q |-> RefreshSplice(new, leaf) \o <<leaf>>,
                       freed |-> RefreshFrees(old, new), ret |-> OK]

\* the queries a caller may hand to the refresh: the query an insert or a
\* replace has left, the query of a key, its parent, and a query of the
\* object map, each in the state it was left in
Refreshable ==
    {[m |-> r.m, q |-> Tagged(r.q, CallersFlags, CallersKey(CatKey(k)), 0)] :
       r \in FirstOperations, k \in Keys}
    \cup {[m |-> Cur, q |-> Tagged(CatQuery(Cur, k).q, CallersFlags, CallersKey(CatKey(k)), 0)] :
            k \in Keys}
    \cup {[m |-> Cur,
           q |-> Tagged(Front(CatQuery(Cur, k).q), CallersFlags, CallersKey(CatKey(k)), 0)] :
            k \in {j \in Keys : Len(CatQuery(Cur, j).q) > 1}}
    \cup {[m |-> Cur,
           q |-> Tagged(OmapQueryOf(Cur, CatRootOid).q, {"APFS_QUERY_OMAP"},
                        CallersKey(apfs_init_omap_key(CatRootOid, nx_xid)), 0)]}

Times(s, x) == Cardinality({i \in 1..Len(s) : s[i] = x})

\* C32: after apfs_query_refresh has succeeded the leaf frame is the frame
\* it was, the chain above it starts at the root of the catalog, every new
\* ancestor has the flags and the key of the old query, and the old
\* ancestors and the leaf frame of the descent have been freed once each,
\* and no other frame; on a query of another tree or of a node that is no
\* leaf it returns -EFSCORRUPTED and leaves the chain as it is, and when the
\* descent fails the chain is as it was.
C32_Refresh ==
    (in_trans /\ ~ failed) =>
      \A c \in Refreshable :
        LET old == c.q
            leaf == Last(old)
            res == QueryRefresh(c.m, old)
            kept == {res.q[i].id : i \in 1..Len(res.q)}
            mine == {old[i].id : i \in 1..Len(old)}
        IN /\ res.ret = OK =>
                /\ Last(res.q) = leaf
                /\ Len(res.q) > 1 => /\ res.q[1].fr.node = c.m.s_cat_root
                                     /\ res.q[1].fr.depth = 0
                /\ ~ apfs_query_is_orphan(c.m, Untagged(res.q))
                /\ \A i \in 1..(Len(res.q) - 1) :
                     res.q[i].flags = leaf.flags /\ res.q[i].key = leaf.key
                /\ \A i \in 1..(Len(old) - 1) : Times(res.freed, old[i].id) = 1
                /\ \A x \in kept : Times(res.freed, x) = 0
                /\ Len(res.freed) = Len(old)
                /\ Untagged(res.q) = apfs_query_refresh(c.m, CAT, Untagged(old)).q
           /\ ("APFS_QUERY_CAT" \notin leaf.flags \/ ~ apfs_node_is_leaf(c.m, leaf.fr.node)) =>
                res = [m |-> c.m, q |-> old, freed |-> <<>>, ret |-> EFSCORRUPTED]
           /\ res.ret # OK =>
                /\ res.q = old
                /\ \A x \in mine : Times(res.freed, x) = 0
                /\ \A i \in 1..Len(res.freed) : Times(res.freed, res.freed[i]) = 1

\* an insert has split a leaf and left its query without ancestors; the
\* refresh gives it the root for a parent
C32_OrphanRooted ==
    /\ in_trans /\ ~ failed
    /\ \E c \in Refreshable :
         /\ Len(c.q) = 1
         /\ apfs_query_is_orphan(c.m, Untagged(c.q))
         /\ QueryRefresh(c.m, c.q).ret = OK
         /\ Len(QueryRefresh(c.m, c.q).q) = 2
    /\ \E c \in Refreshable :
         /\ "APFS_QUERY_CAT" \in Last(c.q).flags
         /\ apfs_node_is_leaf(c.m, Last(c.q).fr.node)
         /\ QueryRefresh(c.m, c.q).ret # OK
         /\ QueryRefresh(c.m, c.q).freed # <<>>
\* ------------------------------------------------------------------------
\* the replace that finds no room in a node of one record

\* values up to one that fits in no node, however few records it has
LongVals == 1..NodeSpace

\* apfs_btree_replace on the query of a key, a statement of its loop at a
\* time: what it was called with, what it had at the label again and what
\* each statement has left
ReplaceRuns ==
    {[k |-> k, v |-> v,
      e |-> RtEnter("apfs_btree_replace", Cur, k, v),
      run |-> IF RtEnter("apfs_btree_replace", Cur, k, v).ret # OK THEN <<>>
              ELSE RtRun("apfs_btree_replace",
                         RtEnter("apfs_btree_replace", Cur, k, v).m,
                         RtEnter("apfs_btree_replace", Cur, k, v).q,
                         NoKey, v, "again", RtFuel)] :
       k \in {j \in Keys : CatQuery(Cur, j).ret = OK}, v \in LongVals}

\* what the statement i of a run starts from
StartOf(r, i) == IF i = 1 THEN [m |-> r.e.m, q |-> r.e.q]
                 ELSE [m |-> r.run[i - 1].m, q |-> r.run[i - 1].q]

\* the statement i is the branch of -ENOSPC
NoSpaceAt(r, i) == i > 1 /\ r.run[i - 1].at = "nospace"

\* a query without a parent on a node that is not the root
Rootless(m, q) == Len(q) = 1 /\ ~ apfs_node_is_root(m, Last(q).node)

\* C33: when the node has no room for the replacement, is not the root, has
\* one record, and the query has no parent, apfs_btree_replace returns
\* -EFSCORRUPTED and has not split, refreshed or tried again; in every
\* other case without room it refreshes a chain that has no parent, splits
\* and tries again.
C33_SingleRecord ==
    (in_trans /\ ~ failed) =>
      \A r \in ReplaceRuns : \A i \in 1..Len(r.run) :
        NoSpaceAt(r, i) =>
          LET b == StartOf(r, i)
              s == r.run[i]
          IN IF Rootless(b.m, b.q) /\ Records(b.m, Last(b.q).node) = 1
             THEN /\ s.ret = EFSCORRUPTED
                  /\ s.m = b.m /\ s.q = b.q
                  /\ i = Len(r.run)
                  /\ RtWhole("apfs_btree_replace", Cur, r.k, r.v).ret = EFSCORRUPTED
             ELSE /\ s.how \in {"refresh", "split"}
                  /\ s.how = "refresh" => (Rootless(b.m, b.q) /\ s.ret # OK /\ s.q = b.q)
                  /\ (s.how = "split" /\ Rootless(b.m, b.q)) =>
                       apfs_query_refresh(b.m, CAT, b.q).ret = OK
                  /\ (s.how = "split" /\ s.ret = OK) =>
                       /\ i < Len(r.run)
                       /\ r.run[i + 1].how = "node"
                       /\ Cardinality(NodesOf(s.m, CAT)) > Cardinality(NodesOf(b.m, CAT))
                  /\ s.ret # OK => i = Len(r.run)

\* a replacement that splits the leaf, finds no room in the half of one
\* record and is refused; and one that splits and then fits
C33_RefusedAfterSplit ==
    /\ in_trans /\ ~ failed
    /\ \E r \in ReplaceRuns :
         /\ Len(r.run) = 4
         /\ r.run[2].how = "split" /\ r.run[2].ret = OK
         /\ r.run[4].how = "absurd"
    /\ \E r \in ReplaceRuns :
         /\ Len(r.run) = 3
         /\ r.run[2].how = "split"
         /\ r.run[3].ret = OK
\* ------------------------------------------------------------------------
\* reading a block whose checksum is wrong, and a copy that cannot be made

\* the engine on a device where the stored checksum of the blocks of bad is
\* wrong and the blocks of gone cannot be read
OnDevice(check, bad, gone) ==
    [Cur EXCEPT !.io = [check |-> check, unreadable |-> gone, badcsum |-> bad]]

\* the blocks that hold an object
Objects == {b \in Bnos : blk[b].kind # "free"}

\* C34: with the check of nodes on, apfs_read_object_block on a block whose
\* stored checksum is not the one of its bytes returns -EFSBADCRC, asked for
\* reading or for writing, and has then allocated no block, put nothing in
\* the free queue, joined no block to the transaction and changed no block.
C34_BadChecksum ==
    \A b \in Objects, write \in BOOLEAN :
      LET m == OnDevice(TRUE, {b}, {})
          r == apfs_read_object_block(m, b, write)
      IN /\ r.ret = EFSBADCRC
         /\ FreeBnos(r.m) = FreeBnos(m)
         /\ r.m.fq = fq
         /\ r.m.trans = trans
         /\ r.m.blk = blk
         /\ r.m = m

\* inside a transaction a block of an older transaction has a wrong
\* checksum: the read for writing that would have copied it is refused, as
\* is the read that would have returned it
C34_CopyRefused ==
    /\ in_trans /\ ~ failed
    /\ \E b \in Objects :
         /\ ~ ObjectInTransaction(Cur, b)
         /\ apfs_read_object_block(Cur, b, TRUE).ret = OK
         /\ apfs_read_object_block(Cur, b, TRUE).bno # b
         /\ apfs_read_object_block(OnDevice(TRUE, {b}, {}), b, TRUE).ret = EFSBADCRC
         /\ apfs_read_object_block(OnDevice(TRUE, {b}, {}), b, FALSE).ret = EFSBADCRC
         /\ apfs_read_object_block(OnDevice(FALSE, {b}, {}), b, FALSE).ret = OK

\* the devices on which a copy cannot be made: the one as it is when the
\* allocator has no block left, and the ones that cannot read the block the
\* allocator gives
NoCopyDevices ==
    IF FreeBnos(Cur) = {} THEN {Cur}
    ELSE {OnDevice(TRUE, {}, {apfs_spaceman_allocate_block(Cur).bno})}

\* what the failed copy returns
NoCopyError == IF FreeBnos(Cur) = {} THEN ENOSPC ELSE EIO

\* the objects of older transactions, which a write has to copy
OlderObjects == {b \in Objects : ~ ObjectInTransaction(Cur, b)}

\* the virtual objects whose block is of an older transaction
OlderMapped ==
    {id \in OidsOf(Cur, CAT) :
       /\ apfs_omap_lookup_block(Cur, s_omap_root, id, FALSE).ret = OK
       /\ apfs_omap_lookup_block(Cur, s_omap_root, id, FALSE).block \in OlderObjects}

\* C35: when apfs_read_object_block for writing fails because the allocator
\* has no block or because the new block cannot be read, it returns the
\* error, the old block is not in the free queue, its header is what it was,
\* and apfs_omap_lookup_block has changed no record of the object map.
C35_FailedCopy ==
    (in_trans /\ ~ failed) =>
      \A m \in NoCopyDevices :
        /\ \A b \in OlderObjects :
             LET r == apfs_read_object_block(m, b, TRUE)
             IN /\ r.ret = NoCopyError
                /\ r.m.fq = fq
                /\ \A i \in 1..Len(r.m.fq) : r.m.fq[i] = b => \E j \in 1..Len(fq) : fq[j] = b
                /\ r.m.blk[b] = blk[b]
                /\ r.m.trans = trans
        /\ \A id \in OlderMapped :
             LET lk == apfs_omap_lookup_block(m, s_omap_root, id, TRUE)
             IN /\ lk.ret = NoCopyError
                /\ \A n \in NodesOf(Cur, OMAP) : lk.m.blk[n] = blk[n]
                /\ NodesOf(lk.m, OMAP) = NodesOf(Cur, OMAP)
                /\ lk.m.s_omap_root = s_omap_root

\* the allocator has no block left for the copy of a catalog node of an
\* older transaction
C35_NoBlockLeft ==
    /\ in_trans /\ ~ failed
    /\ FreeBnos(Cur) = {}
    /\ \E id \in OlderMapped :
         apfs_omap_lookup_block(Cur, s_omap_root, id, TRUE).ret = ENOSPC

\* the block the allocator gives for the copy of a catalog node cannot be
\* read, on a device where the copy would otherwise have been made
C35_NewBlockUnreadable ==
    /\ in_trans /\ ~ failed
    /\ \E id \in OlderMapped :
         /\ apfs_omap_lookup_block(Cur, s_omap_root, id, TRUE).ret = OK
         /\ \E m \in NoCopyDevices :
              apfs_omap_lookup_block(m, s_omap_root, id, TRUE).ret = EIO
\* ------------------------------------------------------------------------
\* the capacity of a mapping block, and the removal of a block without a
\* mapping

\* C36: no mapping block ever has more than apfs_max_maps_per_block
\* mappings; apfs_create_cpoint_map on a full block returns -EOPNOTSUPP and
\* leaves the count and every mapping, and on success it has put one mapping
\* (oid, bno) at the index cpm_count had, made the count one more and left
\* the mappings before it.
C36_Capacity ==
    /\ \A i \in 1..Len(cpm.blocks) : Len(cpm.blocks[i]) <= apfs_max_maps_per_block
    /\ cpm.last.op = "create" =>
         /\ cpm.last.ret \in {OK, EOPNOTSUPP}
         /\ cpm.last.ret = EOPNOTSUPP <=> Len(cpm.was) = apfs_max_maps_per_block
         /\ cpm.last.ret = EOPNOTSUPP => CpmMap = cpm.was
         /\ cpm.last.ret = OK =>
              /\ Len(CpmMap) = Len(cpm.was) + 1
              /\ CpmMap[Len(cpm.was) + 1] =
                   [cpm_oid |-> cpm.last.oid, cpm_paddr |-> cpm.last.bno]
              /\ \A i \in 1..Len(cpm.was) : CpmMap[i] = cpm.was[i]

\* a mapping has been refused by a block that the calls before had filled
C36_FullRefused ==
    /\ cpm.last.op = "create" /\ cpm.last.ret = EOPNOTSUPP
    /\ Len(CpmMap) = apfs_max_maps_per_block
    /\ CpmMap[apfs_max_maps_per_block].cpm_oid # CpmMap[1].cpm_oid

\* C37: apfs_remove_cpoint_map for a block that no mapping has returns
\* -EFSCORRUPTED and leaves the mapping block: the count, and the oid and the
\* address of every mapping, are what they were.
C37_UnmappedUnchanged ==
    (/\ cpm.last.op = "remove"
     /\ \A i \in 1..Len(cpm.was) : cpm.was[i].cpm_paddr # cpm.last.bno) =>
       /\ cpm.last.ret = EFSCORRUPTED
       /\ CpmMap = cpm.was

\* what the function leaves after that call: the count and the oids, and
\* the addresses of the mappings that are not after the block in the ring;
\* a mapping after it has been moved one place back
C37_UnmappedRenumbered ==
    (/\ cpm.last.op = "remove"
     /\ \A i \in 1..Len(cpm.was) : cpm.was[i].cpm_paddr # cpm.last.bno) =>
       /\ cpm.last.ret = EFSCORRUPTED
       /\ Len(CpmMap) = Len(cpm.was)
       /\ \A i \in 1..Len(cpm.was) :
            /\ CpmMap[i].cpm_oid = cpm.was[i].cpm_oid
            /\ CpmMap[i].cpm_paddr =
                 IF OffsetOf(cpm.was[i]) > OffsetOf([cpm_paddr |-> cpm.last.bno])
                 THEN apfs_data_index_to_bno(cpm, OffsetOf(cpm.was[i]) - 1)
                 ELSE cpm.was[i].cpm_paddr

\* the removal of a block without a mapping has been refused and a mapping
\* has another address than before
C37_RefusedAndMoved ==
    /\ cpm.last.op = "remove" /\ cpm.last.ret = EFSCORRUPTED
    /\ \A i \in 1..Len(cpm.was) : cpm.was[i].cpm_paddr # cpm.last.bno
    /\ Len(CpmMap) = Len(cpm.was)
    /\ \E i \in 1..Len(cpm.was) : CpmMap[i].cpm_paddr # cpm.was[i].cpm_paddr
-----------------------------------------------------------------------------
\* the reference count of a data stream record (inode.c).  A record of the
\* catalog is here the length of its value and the 32-bit count stored in
\* it, as two halves of 16 bits; the variable csum holds the records, the
\* records before the last call, and the call.

DsMaxId == 2
DsIds == 1..DsMaxId

\* calls in one run
DsMaxCalls == 3

\* sizeof(struct apfs_dstream_id_val)
DsValSize == 4

\* the counts an image may hold
DsCounts == {<<0, 0>>, <<0, 1>>, <<0, 2>>, <<0, 3>>, <<1, 0>>,
             <<Half - 1, Half - 1>>}

NoRec == [there |-> FALSE, len |-> 0, refcnt |-> <<0, 0>>]
DsRec(len, refcnt) == [there |-> TRUE, len |-> len, refcnt |-> refcnt]

\* refcnt - 1 in 32 bits
Dec32(w) ==
    IF w[2] > 0 THEN <<w[1], w[2] - 1>>
    ELSE IF w[1] > 0 THEN <<w[1] - 1, Half - 1>>
    ELSE <<Half - 1, Half - 1>>

\* a variant that removes the record of a count of 0 as well
PutDstreamRecGuarded(recs, id, ds_size, tree) ==
    IF ~ recs[id].there
    THEN [recs |-> recs, ret |-> IF ds_size # 0 THEN EFSCORRUPTED ELSE OK]
    ELSE IF recs[id].len # DsValSize THEN [recs |-> recs, ret |-> EFSCORRUPTED]
    ELSE IF recs[id].refcnt \in {<<0, 0>>, <<0, 1>>}
    THEN [recs |-> IF tree = OK THEN [recs EXCEPT ![id] = NoRec] ELSE recs,
          ret |-> tree]
    ELSE [recs |-> IF tree = OK
                   THEN [recs EXCEPT ![id].refcnt = Dec32(@)] ELSE recs,
          ret |-> tree]

\* apfs_put_dstream_rec on the records; tree is what apfs_btree_remove or
\* apfs_btree_replace returns
PutDstreamRec(recs, id, ds_size, tree) ==
    IF ~ recs[id].there
    THEN [recs |-> recs, ret |-> IF ds_size # 0 THEN EFSCORRUPTED ELSE OK]
    ELSE IF recs[id].len # DsValSize THEN [recs |-> recs, ret |-> EFSCORRUPTED]
    ELSE IF recs[id].refcnt = <<0, 1>>
    THEN [recs |-> IF tree = OK THEN [recs EXCEPT ![id] = NoRec] ELSE recs,
          ret |-> tree]
    ELSE [recs |-> IF tree = OK
                   THEN [recs EXCEPT ![id].refcnt = Dec32(@)] ELSE recs,
          ret |-> tree]

\* apfs_create_dstream_rec; tree is what apfs_btree_insert returns
CreateDstreamRec(recs, id, tree) ==
    IF recs[id].there THEN [recs |-> recs, ret |-> OK]
    ELSE [recs |-> IF tree = OK
                   THEN [recs EXCEPT ![id] = DsRec(DsValSize, <<0, 1>>)] ELSE recs,
          ret |-> tree]

\* the records of an image: none, one of another length, or one with any
\* count
DsInit ==
    /\ EngineAtRest /\ blk = InitBlk /\ s_omap_root = 1 /\ s_cat_root = 2
    /\ query = Idle /\ qlife = Idle /\ cpm = Idle /\ lock = Idle /\ omap = Idle
    /\ \E recs \in [DsIds -> {NoRec, DsRec(2 * DsValSize, <<0, 2>>)}
                               \cup {DsRec(DsValSize, c) : c \in DsCounts}] :
         csum = [pc |-> "dstream", recs |-> recs, was |-> recs, calls |-> 0,
                 last |-> [op |-> "none", id |-> 0, size |-> 0, ret |-> OK]]

DsReturn(op, id, size, r) ==
    /\ csum' = [pc |-> "dstream", recs |-> r.recs, was |-> csum.recs,
                calls |-> csum.calls + 1,
                last |-> [op |-> op, id |-> id, size |-> size, ret |-> r.ret]]
    /\ CsRest

DsCreate(id, tree) ==
    /\ csum.pc = "dstream" /\ csum.calls < DsMaxCalls
    /\ DsReturn("create", id, 0, CreateDstreamRec(csum.recs, id, tree))

DsPut(id, size, tree) ==
    /\ csum.pc = "dstream" /\ csum.calls < DsMaxCalls
    /\ DsReturn("put", id, size, PutDstreamRec(csum.recs, id, size, tree))

DsNext ==
    \/ \E id \in DsIds, tree \in {OK, ENOSPC} : DsCreate(id, tree)
    \/ \E id \in DsIds, size \in {0, 1}, tree \in {OK, ENOSPC} : DsPut(id, size, tree)

SpecDstream == DsInit /\ [][DsNext]_vars

\* the record the last call was for, before and after it
DsWas == csum.was[csum.last.id]
DsNow == csum.recs[csum.last.id]

\* a count is below another one
Below32(a, b) == a[1] < b[1] \/ (a[1] = b[1] /\ a[2] < b[2])

\* C38: apfs_put_dstream_rec removes the record exactly when the stored
\* count is 1 and otherwise stores the count less one; the stored count
\* never goes around below zero (a stored 0 does not become 0xFFFFFFFF); a
\* missing record is an error only when the size of the stream is not zero.
C38_PutNeverWraps ==
    csum.last.op = "put" =>
      /\ (DsWas.there /\ DsWas.len = DsValSize /\ csum.last.ret = OK) =>
           /\ ~ DsNow.there <=> DsWas.refcnt = <<0, 1>>
           /\ DsNow.there =>
                /\ Below32(DsNow.refcnt, DsWas.refcnt)
                /\ Dec32(DsWas.refcnt) = DsNow.refcnt
           /\ ~ (DsWas.refcnt = <<0, 0>> /\ DsNow.there
                   /\ DsNow.refcnt = <<Half - 1, Half - 1>>)
      /\ ~ DsWas.there =>
           /\ csum.last.ret = (IF csum.last.size # 0 THEN EFSCORRUPTED ELSE OK)
           /\ csum.recs = csum.was

\* what the function does: the count less one in 32 bits, which for a
\* stored 0 is 0xFFFFFFFF
C38_PutInWidth ==
    csum.last.op = "put" =>
      /\ (DsWas.there /\ DsWas.len = DsValSize /\ csum.last.ret = OK) =>
           /\ ~ DsNow.there <=> DsWas.refcnt = <<0, 1>>
           /\ DsNow.there => Dec32(DsWas.refcnt) = DsNow.refcnt
           /\ (DsNow.there /\ ~ Below32(DsNow.refcnt, DsWas.refcnt)) <=>
                DsWas.refcnt = <<0, 0>>
           /\ \A id \in DsIds : id # csum.last.id => csum.recs[id] = csum.was[id]
      /\ (DsWas.there /\ DsWas.len # DsValSize) =>
           csum.last.ret = EFSCORRUPTED /\ csum.recs = csum.was
      /\ csum.last.ret # OK => csum.recs = csum.was
      /\ ~ DsWas.there =>
           /\ csum.last.ret = (IF csum.last.size # 0 THEN EFSCORRUPTED ELSE OK)
           /\ csum.recs = csum.was

\* a put on a stored count of 0 has left 0xFFFFFFFF
C38_WrappedFromZero ==
    /\ csum.last.op = "put" /\ csum.last.ret = OK
    /\ DsWas.there /\ DsWas.refcnt = <<0, 0>>
    /\ DsNow.there /\ DsNow.refcnt = <<Half - 1, Half - 1>>
-----------------------------------------------------------------------------
\* the keys of the object map under calls that make, copy and delete records

\* apfs_create_omap_rec for any oid, one that has a record among them
OmapCreate(oid, bno) ==
    /\ Budget
    /\ OmReturn("create_rec", oid, Call("apfs_create_omap_rec", <<Cur, oid, bno>>), bno)

OmrNext ==
    \/ apfs_transaction_start
    \/ apfs_transaction_commit
    \/ \E oid \in OmOids : OmapCreate(oid, NBlocks)
    \/ \E oid \in OmOids : OmapLookup(oid, TRUE)
    \/ \E oid \in OmOids : OmapDelete(oid)

SpecOmapRecs == Init /\ [][OmrNext]_vars

\* the records of the leaves of the object map, by node and place
OmapRecords ==
    {e \in (NodesOf(Cur, OMAP) \X (1..NodeSpace)) :
       blk[e[1]].leaf /\ e[2] <= Len(blk[e[1]].recs)}

\* C39: the object map never has two records with the same key (oid, xid),
\* whatever the sequence of apfs_create_omap_rec, apfs_delete_omap_rec and
\* apfs_omap_lookup_block for writing, in one transaction and across them.
C39_NoDuplicateKeys ==
    \A e, f \in OmapRecords :
      blk[e[1]].recs[e[2]].k = blk[f[1]].recs[f[2]].k => e = f

\* apfs_create_omap_rec has returned 0 for an oid that had a record of the
\* current transaction
C39_CreatedTwice ==
    /\ omap.pc = "called" /\ omap.op = "create_rec" /\ omap.ret = OK
    /\ \E e, f \in OmapRecords :
         /\ e # f
         /\ blk[e[1]].recs[e[2]].k = <<omap.oid, nx_xid>>
         /\ blk[f[1]].recs[f[2]].k = <<omap.oid, nx_xid>>

\* the object map has a record with the key, or one of the oid
HasKey(key) == \E e \in OmapRecords : blk[e[1]].recs[e[2]].k = key
HasOid(oid) == \E e \in OmapRecords : blk[e[1]].recs[e[2]].k[1] = oid

\* no node of the object map, leaf or not, has a key twice
NoKeyTwiceInNode ==
    \A n \in NodesOf(Cur, OMAP) : \A i, j \in 1..Len(blk[n].recs) :
      blk[n].recs[i].k = blk[n].recs[j].k => i = j

\* what the functions do: a step that leaves two records with one key where
\* no node had a key twice is an apfs_create_omap_rec that returned 0 for an
\* oid with a record of the current transaction, or an
\* apfs_omap_lookup_block for an oid without a record; apfs_delete_omap_rec
\* never makes one
C39_OnlyRepeatedCreate ==
    [][(C39_NoDuplicateKeys /\ NoKeyTwiceInNode /\ ~ C39_NoDuplicateKeys') =>
         /\ omap'.pc = "called" /\ omap'.ret = OK
         /\ \/ omap'.op = "create_rec" /\ HasKey(<<omap'.oid, nx_xid>>)
            \/ omap'.op = "lookup" /\ ~ HasOid(omap'.oid)]_vars
-----------------------------------------------------------------------------
\* the sums of apfs_fletcher64 in their width of 64 bits, a word of the
\* block at a time.  A 64-bit value is the pair <<high word, low word>>; the
\* variable csum holds the sums the code keeps, whether a carry has left
\* them, the remainders of the same sums as integers without a width, and
\* the sums of the block of the same length with every bit set.

\* the words of a block of 2^16 bytes, the largest block size
FlMaxWords == 16384

AllOnes == <<Half - 1, Half - 1>>
Zero64 == <<<<0, 0>>, <<0, 0>>>>
U64(w) == <<<<0, 0>>, w>>

\* a variant with sums of 48 bits
Add48(a, b) ==
    LET l0 == a[2][2] + b[2][2]
        l1 == a[2][1] + b[2][1] + (l0 \div Half)
        l2 == a[1][2] + b[1][2] + (l1 \div Half)
    IN [v |-> <<<<0, l2 % Half>>, <<l1 % Half, l0 % Half>>>>,
        carry |-> l2 \div Half]

\* a + b in 64 bits, and the carry that is lost
Add64(a, b) ==
    LET l0 == a[2][2] + b[2][2]
        l1 == a[2][1] + b[2][1] + (l0 \div Half)
        l2 == a[1][2] + b[1][2] + (l1 \div Half)
        l3 == a[1][1] + b[1][1] + (l2 \div Half)
    IN [v |-> <<<<l3 % Half, l2 % Half>>, <<l1 % Half, l0 % Half>>>>,
        carry |-> l3 \div Half]

\* do_div(x, 0xFFFFFFFF): the remainder of a 64-bit value
Rem64(x) == AddRem(Rem32(x[1]), Rem32(x[2]))

\* the end of apfs_fletcher64, from the sums the loop has left
FletcherEnd(sum1, sum2) ==
    LET c1sum == Add64(sum1, sum2)
        c1 == FromAllOnes(Rem64(c1sum.v))
        c2sum == Add64(sum1, U64(c1))
        c2 == FromAllOnes(Rem64(c2sum.v))
    IN [c |-> <<c2, c1>>, carry |-> c1sum.carry + c2sum.carry]

\* the same from the remainders of the sums
FletcherEndRem(r1, r2) ==
    LET c1 == FromAllOnes(AddRem(r1, r2))
        c2 == FromAllOnes(AddRem(r1, Rem32(c1)))
    IN <<c2, c1>>

\* the blocks: every bit set, none set, the two in turns, the number of the
\* word, and the high half set
FlBlocks == {"ones", "zeroes", "turns", "count", "high"}

FlWord(block, i) ==
    CASE block = "ones" -> AllOnes
      [] block = "zeroes" -> <<0, 0>>
      [] block = "turns" -> IF i % 2 = 1 THEN AllOnes ELSE <<0, 0>>
      [] block = "count" -> <<0, i>>
      [] block = "high" -> <<Half - 1, 0>>

FlInit ==
    /\ EngineAtRest /\ blk = InitBlk /\ s_omap_root = 1 /\ s_cat_root = 2
    /\ query = Idle /\ qlife = Idle /\ cpm = Idle /\ lock = Idle /\ omap = Idle
    /\ \E block \in FlBlocks :
         csum = [pc |-> "fletcher", block |-> block, i |-> 0,
                 sum1 |-> Zero64, sum2 |-> Zero64, carry |-> 0,
                 r1 |-> <<0, 0>>, r2 |-> <<0, 0>>,
                 most1 |-> Zero64, most2 |-> Zero64]

\* one turn of the loop: sum1 += le32_to_cpu(buff[i]); sum2 += sum1
FlAdd ==
    /\ csum.pc = "fletcher"
    /\ csum.i < FlMaxWords
    /\ LET w == FlWord(csum.block, csum.i + 1)
           s1 == Add64(csum.sum1, U64(w))
           s2 == Add64(csum.sum2, s1.v)
           r1 == AddRem(csum.r1, Rem32(w))
           m1 == Add64(csum.most1, U64(AllOnes))
       IN csum' = [csum EXCEPT !.i = @ + 1,
                               !.sum1 = s1.v, !.sum2 = s2.v,
                               !.carry = @ + s1.carry + s2.carry,
                               !.r1 = r1, !.r2 = AddRem(@, r1),
                               !.most1 = m1.v,
                               !.most2 = Add64(@, m1.v).v]
    /\ CsRest

FlNext == FlAdd

SpecFletcher == FlInit /\ [][FlNext]_vars

\* a 64-bit value is not above another one
Le64(a, b) ==
    LET la == <<a[1][1], a[1][2], a[2][1], a[2][2]>>
        lb == <<b[1][1], b[1][2], b[2][1], b[2][2]>>
    IN \/ la = lb
       \/ \E k \in 1..4 : la[k] < lb[k] /\ \A j \in 1..(k - 1) : la[j] = lb[j]

\* C40: for a block of at most 2^16 bytes the two sums of apfs_fletcher64
\* never go past 2^64 - 1 before the division by 0xFFFFFFFF, so that the
\* result is the one of the sums as integers without a width, and each half
\* of the result is in 1..2^32 - 1.
C40_InRange ==
    csum.pc = "fletcher" =>
      /\ csum.carry = 0
      /\ FletcherEnd(csum.sum1, csum.sum2).carry = 0
      /\ Le64(csum.sum1, csum.most1) /\ Le64(csum.sum2, csum.most2)
      /\ Rem64(csum.sum1) = csum.r1 /\ Rem64(csum.sum2) = csum.r2
      /\ FletcherEnd(csum.sum1, csum.sum2).c = FletcherEndRem(csum.r1, csum.r2)
      /\ \A h \in 1..2 :
           LET c == FletcherEnd(csum.sum1, csum.sum2).c[h]
           IN c # <<0, 0>> /\ c[1] \in 0..(Half - 1) /\ c[2] \in 0..(Half - 1)

\* the block of 2^16 bytes with every bit set has been summed: the second
\* sum is past 2^58
C40_LargestBlock ==
    /\ csum.pc = "fletcher" /\ csum.block = "ones" /\ csum.i = FlMaxWords
    /\ csum.sum2 = csum.most2
    /\ csum.sum2[1][1] >= 1024


=============================================================================
